---- MODULE Spec2Model ----
(***************************************************************************)
(* Tartiflette: a KVM-backed x86-64 virtual machine (src/vm/src/vm.rs).    *)
(*                                                                         *)
(* 64-bit unsigned values are represented by their two's-complement signed *)
(* reading, so 0xffff_ffff_ff00_0000 is -16777216. Addition is the same on *)
(* both readings; unsigned comparison is ULess.                            *)
(***************************************************************************)
EXTENDS Integers, Sequences, FiniteSets, TLC

VARIABLES
    vm,     \* the Vm instances: vm["a"] is the VM under test, vm["b"] the reference
    ret,    \* what the last host call returned
    hist,   \* history of the last run(): entry state, guest writes, dispatcher reads
    pfd     \* a PageFaultDetail value and what its accessors answered

vars == <<vm, ret, hist, pfd>>

----------------------------------------------------------------------------
(* Bounds of the model *)

\* page-fault status words carry bits 0..PfBits-1 and bit 15
PfBits == 5

\* pages of guest physical memory given to Vm::new
MemPages == 8

\* run() calls made on one VM
MaxRuns == 1

\* passes of run()'s loop that are followed
MaxPasses == 2

\* run() calls made on one VM where a run resumes after a syscall
SysRuns == 2

\* set_reg calls made on one VM
MaxSets == 1

\* reset() calls made on one VM
MaxResets == 2

\* run() calls made on one VM around an interruption
IntrRuns == 2

\* run() calls made on one VM whose dirty flags are watched
DirtyRuns == 2

\* pages of the memory dump a snapshot is loaded from
SnapPages == 2

\* pages of a VM whose dirty bitmap spans two 64-bit words
BigPages == 66

----------------------------------------------------------------------------
(* u64 helpers *)

\* unsigned a < b on the signed reading
ULess(a, b) == IF (a >= 0) = (b >= 0) THEN a < b ELSE a >= 0

Pow2(n) == 2 ^ n

\* crate::bits::BitField::is_bit_set
is_bit_set(x, n) == (x \div Pow2(n)) % 2 = 1

\* x | (1 << n)
set_bit(x, n) == IF is_bit_set(x, n) THEN x ELSE x + Pow2(n)

----------------------------------------------------------------------------
(* Layout constants *)

PAGE_SIZE == 4096

IDT_ADDRESS == -16777216

IDT_HANDLERS == IDT_ADDRESS + PAGE_SIZE

GDT_ADDRESS == IDT_ADDRESS + (PAGE_SIZE * 2)

TSS_ADDRESS == IDT_ADDRESS + (PAGE_SIZE * 3)

STACK_ADDRESS == IDT_ADDRESS + (PAGE_SIZE * 4)

STACK_SIZE == PAGE_SIZE

\* an IST1 top placed 32 bytes above the bottom of the stack page
IST1_TOP_low == STACK_ADDRESS + 32

\* top of the IST1 stack written into the TSS
IST1_TOP == STACK_ADDRESS + (STACK_SIZE - 256)

\* KVM_SYNC_X86_REGS, KVM_SYNC_X86_SREGS as a set of flags
SYNC_BOTH == {"REGS", "SREGS"}

----------------------------------------------------------------------------
(* VirtualMemory: page table and physical backing.                         *)
(* mem.pt maps each mapped virtual page to its permissions, its physical   *)
(* frame and its dirty flag; the page tables occupy frame PT_FRAME of the  *)
(* backing. mem.data[f] holds the non-zero 8-byte words of frame f.        *)

PT_FRAME == 0

PageOf(a) == a - (a % PAGE_SIZE)

SlotOf(a) == (a % PAGE_SIZE) \div 8

Mapped(mem, a) == PageOf(a) \in DOMAIN mem.pt

Upd(f, k, v) == [x \in (DOMAIN f) \cup {k} |-> IF x = k THEN v ELSE f[x]]

\* a frame's words, zero words not stored
PutWord(page, slot, v) ==
    IF v = 0 THEN [x \in (DOMAIN page) \ {slot} |-> page[x]] ELSE Upd(page, slot, v)

GetWord(page, slot) == IF slot \in DOMAIN page THEN page[slot] ELSE 0

\* the word stored at the 8-byte aligned virtual address a of a mapped page
WordAt(mem, a) == GetWord(mem.data[mem.pt[PageOf(a)].frame], SlotOf(a))

StoreWord(mem, a, v) ==
    LET f == mem.pt[PageOf(a)].frame
    IN [mem EXCEPT !.data[f] = PutWord(@, SlotOf(a), v)]

\* byte k of a word (little endian); words are below 2^31 in magnitude
ByteOf(v, k) == IF k <= 3 THEN (v \div (256 ^ k)) % 256 ELSE IF v >= 0 THEN 0 ELSE 255

ByteAt(mem, a) == ByteOf(WordAt(mem, a - (a % 8)), a % 8)

\* VirtualMemory::new
MemNew(pages) ==
    [pt |-> << >>,
     data |-> [f \in 1 .. (pages - 1) |-> << >>],
     next_frame |-> 1,
     host_memory_size |-> pages * PAGE_SIZE]

\* VirtualMemory::mmap of one page
mmap(mem, vaddr, perms) ==
    IF Mapped(mem, vaddr) \/ mem.next_frame * PAGE_SIZE >= mem.host_memory_size
    THEN [ok |-> FALSE, mem |-> mem]
    ELSE [ok |-> TRUE,
          mem |-> [mem EXCEPT
                     !.pt = Upd(@, PageOf(vaddr),
                                [perms |-> perms, frame |-> mem.next_frame,
                                 dirty |-> FALSE]),
                     !.next_frame = @ + 1]]

\* little-endian value of at most three bytes
LeValue(bytes) ==
    IF Len(bytes) = 0 THEN 0
    ELSE IF Len(bytes) = 1 THEN bytes[1]
    ELSE IF Len(bytes) = 2 THEN bytes[1] + 256 * bytes[2]
    ELSE bytes[1] + 256 * bytes[2] + 65536 * bytes[3]

\* VirtualMemory::write of at most three bytes at an 8-byte aligned address:
\* the access is checked against the mapping only, not the permissions
mem_write(mem, vaddr, bytes) ==
    IF ~Mapped(mem, vaddr)
    THEN [ok |-> FALSE, mem |-> mem]
    ELSE LET old == WordAt(mem, vaddr)
             span == 256 ^ Len(bytes)
         IN [ok |-> TRUE,
             mem |-> StoreWord(mem, vaddr, old - (old % span) + LeValue(bytes))]

\* VirtualMemory::write_val::<u64> at an 8-byte aligned address
write_val(mem, vaddr, v) ==
    IF ~Mapped(mem, vaddr)
    THEN [ok |-> FALSE, mem |-> mem]
    ELSE [ok |-> TRUE, mem |-> StoreWord(mem, vaddr, v)]

\* VirtualMemory::read_val::<u64> at an 8-byte aligned address
read_val(mem, vaddr) ==
    IF ~Mapped(mem, vaddr)
    THEN [ok |-> FALSE, val |-> 0]
    ELSE [ok |-> TRUE, val |-> WordAt(mem, vaddr)]

\* VirtualMemory::read of two bytes
read2(mem, vaddr) ==
    IF ~Mapped(mem, vaddr) \/ ~Mapped(mem, vaddr + 1)
    THEN [ok |-> FALSE, bytes |-> <<0, 0>>]
    ELSE [ok |-> TRUE, bytes |-> <<ByteAt(mem, vaddr), ByteAt(mem, vaddr + 1)>>]

\* x64::ExceptionFrame, five words: rip, cs, rflags, rsp, ss
read_frame(mem, vaddr) ==
    IF ~Mapped(mem, vaddr) \/ ~Mapped(mem, vaddr + 39)
    THEN [ok |-> FALSE, rip |-> 0, cs |-> 0, rflags |-> 0, rsp |-> 0, ss |-> 0]
    ELSE [ok |-> TRUE,
          rip |-> WordAt(mem, vaddr),
          cs |-> WordAt(mem, vaddr + 8),
          rflags |-> WordAt(mem, vaddr + 16),
          rsp |-> WordAt(mem, vaddr + 24),
          ss |-> WordAt(mem, vaddr + 32)]

----------------------------------------------------------------------------
(* Registers *)

Register == {"Rax", "Rbx", "Rcx", "Rdx", "Rsi", "Rdi", "Rsp", "Rbp",
             "R8", "R9", "R10", "R11", "R12", "R13", "R14", "R15",
             "Rip", "Rflags", "FsBase", "GsBase"}

\* kvm_regs as the vCPU holds it after creation
ResetRegs ==
    [rax |-> 0, rbx |-> 0, rcx |-> 0, rdx |-> 1536, rsi |-> 0, rdi |-> 0,
     rsp |-> 0, rbp |-> 0, r8 |-> 0, r9 |-> 0, r10 |-> 0, r11 |-> 0,
     r12 |-> 0, r13 |-> 0, r14 |-> 0, r15 |-> 0, rip |-> 65520, rflags |-> 2]

\* the part of kvm_sregs the run loop reads, and the bases of its fs and gs
\* segments
ResetSregs == [cr2 |-> 0, cr3 |-> 0, fs |-> 0, gs |-> 0]

get_reg(v, regid) ==
    CASE regid = "Rax" -> v.registers.rax
      [] regid = "Rbx" -> v.registers.rbx
      [] regid = "Rcx" -> v.registers.rcx
      [] regid = "Rdx" -> v.registers.rdx
      [] regid = "Rsi" -> v.registers.rsi
      [] regid = "Rdi" -> v.registers.rdi
      [] regid = "Rsp" -> v.registers.rsp
      [] regid = "Rbp" -> v.registers.rbp
      [] regid = "R8" -> v.registers.r8
      [] regid = "R9" -> v.registers.r9
      [] regid = "R10" -> v.registers.r10
      [] regid = "R11" -> v.registers.r11
      [] regid = "R12" -> v.registers.r12
      [] regid = "R13" -> v.registers.r13
      [] regid = "R14" -> v.registers.r14
      [] regid = "R15" -> v.registers.r15
      [] regid = "Rip" -> v.registers.rip
      [] regid = "Rflags" -> v.registers.rflags
      [] regid = "FsBase" -> v.fs_base
      [] regid = "GsBase" -> v.gs_base

set_reg(v, regid, regval) ==
    CASE regid = "Rax" -> [v EXCEPT !.registers.rax = regval]
      [] regid = "Rbx" -> [v EXCEPT !.registers.rbx = regval]
      [] regid = "Rcx" -> [v EXCEPT !.registers.rcx = regval]
      [] regid = "Rdx" -> [v EXCEPT !.registers.rdx = regval]
      [] regid = "Rsi" -> [v EXCEPT !.registers.rsi = regval]
      [] regid = "Rdi" -> [v EXCEPT !.registers.rdi = regval]
      [] regid = "Rsp" -> [v EXCEPT !.registers.rsp = regval]
      [] regid = "Rbp" -> [v EXCEPT !.registers.rbp = regval]
      [] regid = "R8" -> [v EXCEPT !.registers.r8 = regval]
      [] regid = "R9" -> [v EXCEPT !.registers.r9 = regval]
      [] regid = "R10" -> [v EXCEPT !.registers.r10 = regval]
      [] regid = "R11" -> [v EXCEPT !.registers.r11 = regval]
      [] regid = "R12" -> [v EXCEPT !.registers.r12 = regval]
      [] regid = "R13" -> [v EXCEPT !.registers.r13 = regval]
      [] regid = "R14" -> [v EXCEPT !.registers.r14 = regval]
      [] regid = "R15" -> [v EXCEPT !.registers.r15 = regval]
      [] regid = "Rip" -> [v EXCEPT !.registers.rip = regval]
      [] regid = "Rflags" -> [v EXCEPT !.registers.rflags = regval]
      [] regid = "FsBase" -> [v EXCEPT !.fs_base = regval]
      [] regid = "GsBase" -> [v EXCEPT !.gs_base = regval]

----------------------------------------------------------------------------
(* Construction *)

\* a stub that pushes the number of the next vector
handler_code_off_by_one(i) == <<106, i + 1, 244>>

\* the 3-byte stub of vector i: push imm8 i; hlt  (6a ii f4)
handler_code(i) == <<106, i, 244>>

\* a handlers loop that lays the stubs out at stride 64
write_handlers_stride64(mem) ==
    LET f == mem.pt[IDT_HANDLERS].frame
    IN [mem EXCEPT !.data[f] =
            [slot \in { SlotOf(IDT_HANDLERS + (i * 64)) : i \in 0 .. 31 } |->
                LeValue(handler_code(slot \div 8))]]

\* the loop over the 32 handlers: stub i is written at IDT_HANDLERS + i * 32,
\* which is word 4 * i of the freshly mapped (zero) trampoline page
write_handlers(mem) ==
    LET f == mem.pt[IDT_HANDLERS].frame
    IN [mem EXCEPT !.data[f] =
            [slot \in { SlotOf(IDT_HANDLERS + (i * 32)) : i \in 0 .. 31 } |->
                LeValue(handler_code(slot \div 4))]]

\* IdtEntryBuilder: a ring-0 trap gate through code selector 1 and IST 1; the
\* sixteen bytes of the descriptor are kept as its fields
IdtEntry(base) ==
    [base |-> base, dpl |-> 0, segment_selector |-> 8, gate_type |-> "Trap",
     ist |-> 1]

\* the loop over the 32 IDT entries and their write at IDT_ADDRESS: entry i
\* occupies bytes 16 * i .. 16 * i + 15 of the freshly mapped IDT page
write_idt(mem) ==
    LET f == mem.pt[IDT_ADDRESS].frame
    IN [mem EXCEPT !.data[f] =
            [slot \in { SlotOf(IDT_ADDRESS + (i * 16)) : i \in 0 .. 31 } |->
                IdtEntry(IDT_HANDLERS + ((slot \div 2) * 32))]]

\* the gate the processor finds for a vector
IdtEntryAt(mem, vector) ==
    mem.data[mem.pt[IDT_ADDRESS].frame][SlotOf(IDT_ADDRESS + (vector * 16))]

\* a memory slot whose dirty log starts with every page set
setup_barebones_initially_set(pages) ==
    [registers |-> ResetRegs,
     special_registers |-> ResetSregs,
     fs_base |-> 0,
     gs_base |-> 0,
     hypercall_page |-> 0,
     memory |-> MemNew(pages),
     kvm_vcpu |-> [regs |-> ResetRegs, sregs |-> ResetSregs,
                   fs_base |-> 0, gs_base |-> 0],
     kvm_vcpu_run |-> [regs |-> ResetRegs, sregs |-> ResetSregs,
                       kvm_dirty_regs |-> {}, kvm_valid_regs |-> {}],
     kvm_vm |-> [dirty_log |-> 0 .. (pages - 1)]]

\* Vm::setup_barebones: memory, the vCPU's reset registers, a clean dirty log
setup_barebones(pages) ==
    [registers |-> ResetRegs,
     special_registers |-> ResetSregs,
     fs_base |-> 0,
     gs_base |-> 0,
     hypercall_page |-> 0,
     memory |-> MemNew(pages),
     kvm_vcpu |-> [regs |-> ResetRegs, sregs |-> ResetSregs,
                   fs_base |-> 0, gs_base |-> 0],
     kvm_vcpu_run |-> [regs |-> ResetRegs, sregs |-> ResetSregs,
                       kvm_dirty_regs |-> {}, kvm_valid_regs |-> {}],
     kvm_vm |-> [dirty_log |-> {}]]

\* Vm::setup_registers
setup_registers(v) ==
    [v EXCEPT !.special_registers.cr3 = PT_FRAME * PAGE_SIZE]

\* Vm::setup_exception_handling: GDT, TSS, trampolines, IDT, IST1 stack
setup_exception_handling(v) ==
    LET m1 == mmap(v.memory, GDT_ADDRESS, {"READ", "WRITE"}).mem
        m2 == mmap(m1, TSS_ADDRESS, {"READ"}).mem
        m3 == mmap(m2, IDT_HANDLERS, {"READ", "EXECUTE"}).mem
        m4 == write_handlers(m3)
        m5 == write_idt(mmap(m4, IDT_ADDRESS, {"READ"}).mem)
        m6 == mmap(m5, STACK_ADDRESS, {"READ", "WRITE"}).mem
    IN [v EXCEPT !.memory = m6, !.hypercall_page = IDT_HANDLERS]

\* KVM_SET_SREGS: the special registers are loaded, and with them the bases of
\* the fs and gs segments, which are what IA32_FS_BASE and IA32_GS_BASE name
set_sregs(c, sregs) ==
    [c EXCEPT !.sregs = sregs, !.fs_base = sregs.fs, !.gs_base = sregs.gs]

\* KVM_SET_MSRS of IA32_FS_BASE and IA32_GS_BASE: the two segment bases
set_msrs(c, fs, gs) ==
    [c EXCEPT !.fs_base = fs, !.gs_base = gs, !.sregs.fs = fs, !.sregs.gs = gs]

\* Vm::flush_registers: set_regs, set_sregs, set_msrs, then read back
flush_registers(v) ==
    LET regs == [v.registers EXCEPT !.rflags = set_bit(@, 1)]
        c == set_msrs(set_sregs([v.kvm_vcpu EXCEPT !.regs = regs],
                                v.special_registers),
                      v.fs_base, v.gs_base)
    IN [v EXCEPT
          !.registers = c.regs,
          !.special_registers = c.sregs,
          !.kvm_vcpu = c,
          !.kvm_vcpu_run.regs = c.regs,
          !.kvm_vcpu_run.sregs = c.sregs,
          !.kvm_vcpu_run.kvm_dirty_regs = {}]

\* Vm::new
VmNew(pages) ==
    flush_registers(setup_exception_handling(setup_registers(setup_barebones(pages))))

----------------------------------------------------------------------------
(* The hypervisor and the guest, as seen through KVM_RUN.                   *)
(* An outcome o of one KVM_RUN names what the guest did and how it stopped: *)
(*   o.wr    registers the guest code wrote (Register -> value)             *)
(*   o.mw    words the guest code stored (address -> value)                 *)
(*   o.kind  "Debug", "Hlt", "Other", "Trap", "Access",                     *)
(*           "Eintr", "Eagain", "Efault"                                    *)
(*   o.vector, o.err   the exception delivered by a "Trap"                  *)
(*   o.addr, o.rw      the data access made by an "Access"                  *)
(*   o.msrs  what KVM_GET_MSRS answers afterwards: "ok", "err", "short"     *)

FieldOf ==
    [Rax |-> "rax", Rbx |-> "rbx", Rcx |-> "rcx", Rdx |-> "rdx", Rsi |-> "rsi",
     Rdi |-> "rdi", Rsp |-> "rsp", Rbp |-> "rbp", R8 |-> "r8", R9 |-> "r9",
     R10 |-> "r10", R11 |-> "r11", R12 |-> "r12", R13 |-> "r13", R14 |-> "r14",
     R15 |-> "r15", Rip |-> "rip", Rflags |-> "rflags"]

\* the guest writes register r of the vCPU; bit 1 of rflags is fixed to one in
\* the processor, whatever the guest loads
HwSet(c, r, val) ==
    IF r = "FsBase" THEN [c EXCEPT !.fs_base = val, !.sregs.fs = val]
    ELSE IF r = "GsBase" THEN [c EXCEPT !.gs_base = val, !.sregs.gs = val]
    ELSE IF r = "Rflags" THEN [c EXCEPT !.regs.rflags = set_bit(val, 1)]
    ELSE [c EXCEPT !.regs[FieldOf[r]] = val]

RECURSIVE HwSetAll(_, _)
HwSetAll(c, wr) ==
    IF DOMAIN wr = {} THEN c
    ELSE LET r == CHOOSE x \in DOMAIN wr : TRUE
         IN HwSetAll(HwSet(c, r, wr[r]), [x \in (DOMAIN wr) \ {r} |-> wr[x]])

\* the error-code vectors without the general protection fault
HasErrorCode_without_gp(vector) == vector \in {8, 10, 11, 12, 14, 17, 21}

\* vectors for which the CPU pushes an error code
HasErrorCode(vector) == vector \in {8, 10, 11, 12, 13, 14, 17, 21}

\* a guest store to a mapped page: the word is written, the page-table entry's
\* dirty bit is set by the CPU, and KVM logs the frames written by the guest
GuestStore(v, a, val) ==
    LET e == v.memory.pt[PageOf(a)]
        m1 == StoreWord(v.memory, a, val)
    IN [v EXCEPT
          !.memory = [m1 EXCEPT !.pt[PageOf(a)].dirty = TRUE],
          !.kvm_vm.dirty_log =
              @ \cup {e.frame} \cup (IF e.dirty THEN {} ELSE {PT_FRAME})]

RECURSIVE GuestStoreAll(_, _)
GuestStoreAll(v, mw) ==
    IF DOMAIN mw = {} THEN v
    ELSE LET a == CHOOSE x \in DOMAIN mw : TRUE
         IN GuestStoreAll(GuestStore(v, a, mw[a]),
                          [x \in (DOMAIN mw) \ {a} |-> mw[x]])

\* KVM_RUN entry: sync_regs loads the groups flagged dirty from the run area
KvmEnter(v) ==
    LET dirty == v.kvm_vcpu_run.kvm_dirty_regs
        c1 == IF "REGS" \in dirty
              THEN [v.kvm_vcpu EXCEPT !.regs = v.kvm_vcpu_run.regs]
              ELSE v.kvm_vcpu
        c2 == IF "SREGS" \in dirty THEN set_sregs(c1, v.kvm_vcpu_run.sregs) ELSE c1
    IN [v EXCEPT !.kvm_vcpu = c2, !.kvm_vcpu_run.kvm_dirty_regs = {}]

\* the guest code runs: register writes, then stores
GuestExec(v, o) ==
    GuestStoreAll([v EXCEPT !.kvm_vcpu = HwSetAll(@, o.wr)], o.mw)

\* exception delivery through the IDT: the CPU switches to IST1, pushes
\* ss, rsp, rflags, cs, rip and the error code if the vector has one, and enters
\* the handler its gate points to, whose stub pushes a byte and halts
Deliver(v, vector, err, cr2) ==
    LET c == v.kvm_vcpu
        handler == IdtEntryAt(v.memory, vector).base
        v1 == GuestStore(v, IST1_TOP - 8, 8)
        v2 == GuestStore(v1, IST1_TOP - 16, c.regs.rsp)
        v3 == GuestStore(v2, IST1_TOP - 24, c.regs.rflags)
        v4 == GuestStore(v3, IST1_TOP - 32, 8)
        v5 == GuestStore(v4, IST1_TOP - 40, c.regs.rip)
        v6 == IF HasErrorCode(vector) THEN GuestStore(v5, IST1_TOP - 48, err) ELSE v5
        sp == IF HasErrorCode(vector) THEN IST1_TOP - 56 ELSE IST1_TOP - 48
        v7 == GuestStore(v6, sp, ByteAt(v.memory, handler + 1))
    IN [v7 EXCEPT
          !.kvm_vcpu.regs.rsp = sp,
          !.kvm_vcpu.regs.rip = handler + 3,
          !.kvm_vcpu.sregs.cr2 = IF vector = 14 THEN cr2 ELSE @]

\* the page-fault error code of a data access by ring-0 code: bit 0 is set
\* when the page is present, bit 1 when the access is a write
AccessErrorCode(mem, a, rw) ==
    (IF Mapped(mem, a) THEN 1 ELSE 0) + (IF rw = "write" THEN 2 ELSE 0)

AccessFaults(mem, a, rw) ==
    \/ ~Mapped(mem, a)
    \/ rw = "write" /\ "WRITE" \notin mem.pt[PageOf(a)].perms

\* how the guest stops
GuestStop(v, o) ==
    CASE o.kind = "Trap" -> Deliver(v, o.vector, o.err, v.kvm_vcpu.sregs.cr2)
      [] o.kind = "Access" ->
            IF AccessFaults(v.memory, o.addr, o.rw)
            THEN Deliver(v, 14, AccessErrorCode(v.memory, o.addr, o.rw), o.addr)
            ELSE IF o.rw = "write" THEN GuestStore(v, o.addr, 66) ELSE v
      [] OTHER -> v

\* KVM_RUN exit: store_regs copies the groups flagged valid to the run area
KvmExit(v) ==
    LET valid == v.kvm_vcpu_run.kvm_valid_regs
    IN [v EXCEPT
          !.kvm_vcpu_run.regs = IF "REGS" \in valid THEN v.kvm_vcpu.regs ELSE @,
          !.kvm_vcpu_run.sregs = IF "SREGS" \in valid THEN v.kvm_vcpu.sregs ELSE @]

\* VcpuFd::run: one KVM_RUN with outcome o
KvmRun(v, o) == KvmExit(GuestStop(GuestExec(KvmEnter(v), o), o))

\* the VcpuExit (or errno) that KVM_RUN reports for outcome o
ExitOf(v, o) ==
    CASE o.kind = "Trap" -> "Hlt"
      [] o.kind = "Access" ->
            IF AccessFaults(v.memory, o.addr, o.rw) THEN "Hlt" ELSE "Debug"
      [] OTHER -> o.kind

----------------------------------------------------------------------------
(* PageFaultDetail *)

PageFaultDetail(status, address) == [status |-> status, address |-> address]

unmapped(d) == is_bit_set(d.status, 0)

read(d) == is_bit_set(d.status, 1)

write(d) == ~read(d)

instruction_fetch(d) == is_bit_set(d.status, 15)

----------------------------------------------------------------------------
(* Vm::run *)

\* Result<VmExit>: Ok(exit), Err(error), or a panic
Ok(kind) == [tag |-> "Ok", kind |-> kind, status |-> 0, address |-> 0, vector |-> 0]

OkPageFault(d) ==
    [tag |-> "Ok", kind |-> "PageFault", status |-> d.status, address |-> d.address,
     vector |-> 0]

\* Exception carrying the vector counted from one
OkException_from_one(vector) ==
    [tag |-> "Ok", kind |-> "Exception", status |-> 0, address |-> 0,
     vector |-> vector + 1]

OkException(vector) ==
    [tag |-> "Ok", kind |-> "Exception", status |-> 0, address |-> 0,
     vector |-> vector]

Err(e) == [tag |-> "Err", kind |-> e, status |-> 0, address |-> 0, vector |-> 0]

Panic(msg) == [tag |-> "Panic", kind |-> msg, status |-> 0, address |-> 0, vector |-> 0]

NoRet == [tag |-> "None", kind |-> "", status |-> 0, address |-> 0, vector |-> 0]

VmExit == {"Hlt", "Breakpoint", "Interrupted", "InvalidInstruction", "PageFault",
           "Exception", "Syscall", "Unhandled"}

NoFrame == [ok |-> FALSE, rip |-> 0, cs |-> 0, rflags |-> 0, rsp |-> 0, ss |-> 0]

\* the upper half of the word taken for its lower half
as_u32_upper(x) == (x \div Pow2(16)) \div Pow2(16)

\* error_code as u32: on the signed reading the low 32 bits of a word that TLC
\* can represent are the word itself
as_u32(x) == x

\* commit_registers that leaves rflags as the host set it
commit_registers_rflags_raw(v) ==
    [v EXCEPT
          !.kvm_vcpu_run.regs = v.registers,
          !.kvm_vcpu_run.sregs = v.special_registers,
          !.kvm_vcpu_run.kvm_dirty_regs = @ \cup SYNC_BOTH,
          !.kvm_vcpu = set_msrs(@, v.fs_base, v.gs_base)]

\* commit_registers that fixes rflags in the mirror after the copy to the run area
commit_registers_late_fix(v) ==
    [v EXCEPT
          !.registers.rflags = set_bit(@, 1),
          !.kvm_vcpu_run.regs = v.registers,
          !.kvm_vcpu_run.sregs = v.special_registers,
          !.kvm_vcpu_run.kvm_dirty_regs = @ \cup SYNC_BOTH,
          !.kvm_vcpu = set_msrs(@, v.fs_base, v.gs_base)]

\* commit_registers that does not flag the general registers dirty
commit_registers_undirtied(v) ==
    LET regs == [v.registers EXCEPT !.rflags = set_bit(@, 1)]
    IN [v EXCEPT
          !.registers = regs,
          !.kvm_vcpu_run.regs = regs,
          !.kvm_vcpu_run.sregs = v.special_registers,
          !.kvm_vcpu_run.kvm_dirty_regs = @ \cup {"SREGS"},
          !.kvm_vcpu = set_msrs(@, v.fs_base, v.gs_base)]

\* Vm::commit_registers
commit_registers(v) ==
    LET regs == [v.registers EXCEPT !.rflags = set_bit(@, 1)]
    IN [v EXCEPT
          !.registers = regs,
          !.kvm_vcpu_run.regs = regs,
          !.kvm_vcpu_run.sregs = v.special_registers,
          !.kvm_vcpu_run.kvm_dirty_regs = @ \cup SYNC_BOTH,
          !.kvm_vcpu = set_msrs(@, v.fs_base, v.gs_base)]

\* run(), up to the hypervisor call: commit, then mark both groups valid
run_prepare(v) ==
    [commit_registers(v) EXCEPT !.kvm_vcpu_run.kvm_valid_regs = @ \cup SYNC_BOTH]

\* a pull that takes the general registers only
run_pull_regs_only(v) ==
    [v EXCEPT !.registers = v.kvm_vcpu_run.regs]

\* run(), after the hypervisor call: pull the registers from the run area
run_pull(v) ==
    [v EXCEPT !.registers = v.kvm_vcpu_run.regs,
              !.special_registers = v.kvm_vcpu_run.sregs]

\* the region test with the end of the page taken as part of it
in_hypercall_page_inclusive(v) ==
    ~(ULess(v.registers.rip, v.hypercall_page)
      \/ ULess(v.hypercall_page + PAGE_SIZE, v.registers.rip))

\* the hypercall region test of the Hlt arm
in_hypercall_page(v) ==
    ~(ULess(v.registers.rip, v.hypercall_page)
      \/ ~ULess(v.registers.rip, v.hypercall_page + PAGE_SIZE))

\* the InvalidOpcode arm without the step over the syscall instruction
invalid_opcode_unstepped(v) ==
    LET code_bytes == read2(v.memory, v.registers.rip)
    IN IF code_bytes.ok /\ code_bytes.bytes = <<15, 5>>
       THEN [vm |-> v, ret |-> Ok("Syscall")]
       ELSE [vm |-> v, ret |-> Ok("InvalidInstruction")]

\* the InvalidOpcode arm: 0f 05 at the restored rip is a syscall
invalid_opcode(v) ==
    LET code_bytes == read2(v.memory, v.registers.rip)
    IN IF code_bytes.ok /\ code_bytes.bytes = <<15, 5>>
       THEN [vm |-> [v EXCEPT !.registers.rip = @ + 2], ret |-> Ok("Syscall")]
       ELSE [vm |-> v, ret |-> Ok("InvalidInstruction")]

\* the Hlt arm of run(): forward a guest halt, or decode the trampoline's frame
hlt_exit(v) ==
    IF ~in_hypercall_page(v)
    THEN [vm |-> v, ret |-> Ok("Hlt"), reads |-> {}, vector |-> 0, frame |-> NoFrame]
    ELSE
    LET rsp == v.registers.rsp
        exception_code == read_val(v.memory, rsp)
        has_error == HasErrorCode(exception_code.val)
        error_code == IF has_error THEN read_val(v.memory, rsp + 8)
                      ELSE [ok |-> TRUE, val |-> 0]
        frame_at == IF has_error THEN rsp + 16 ELSE rsp + 8
        exception_frame == read_frame(v.memory, frame_at)
        restored == [v EXCEPT !.registers.rsp = exception_frame.rsp,
                              !.registers.rip = exception_frame.rip]
    IN IF ~exception_code.ok
       THEN [vm |-> v, ret |-> Err("MemoryError"), reads |-> {rsp},
             vector |-> 0, frame |-> NoFrame]
       ELSE IF ~error_code.ok
       THEN [vm |-> v, ret |-> Err("MemoryError"), reads |-> {rsp, rsp + 8},
             vector |-> exception_code.val, frame |-> NoFrame]
       ELSE IF ~exception_frame.ok
       THEN [vm |-> v, ret |-> Err("MemoryError"),
             reads |-> {rsp, frame_at} \cup (IF has_error THEN {rsp + 8} ELSE {}),
             vector |-> exception_code.val, frame |-> NoFrame]
       ELSE LET out ==
                  CASE exception_code.val = 14 ->
                         [vm |-> restored,
                          ret |-> OkPageFault(PageFaultDetail(
                                      as_u32(error_code.val),
                                      v.special_registers.cr2))]
                    [] exception_code.val = 6 -> invalid_opcode(restored)
                    [] OTHER ->
                         [vm |-> restored, ret |-> OkException(exception_code.val)]
            IN [vm |-> out.vm, ret |-> out.ret,
                reads |-> {rsp, frame_at}
                          \cup (IF has_error THEN {rsp + 8} ELSE {})
                          \cup (IF exception_code.val = 6
                                THEN {exception_frame.rip} ELSE {}),
                vector |-> exception_code.val, frame |-> exception_frame]

\* a classification that takes EAGAIN for a failure of the hypervisor
classify_eagain_fatal(v, exit) ==
    CASE exit = "Eintr" ->
           [vm |-> v, ret |-> Ok("Interrupted"), reads |-> {}, vector |-> 0,
            frame |-> NoFrame]
      [] exit \in {"Eagain", "Efault"} ->
           [vm |-> v, ret |-> Err("HvError"), reads |-> {}, vector |-> 0,
            frame |-> NoFrame]
      [] exit = "Debug" ->
           [vm |-> v, ret |-> Ok("Breakpoint"), reads |-> {}, vector |-> 0,
            frame |-> NoFrame]
      [] exit = "Hlt" -> hlt_exit(v)
      [] OTHER ->
           [vm |-> v, ret |-> Ok("Unhandled"), reads |-> {}, vector |-> 0,
            frame |-> NoFrame]

\* a classification that sends the exits it does not know to the Hlt arm
classify_unknown_as_hlt(v, exit) ==
    CASE exit \in {"Eintr", "Eagain"} ->
           [vm |-> v, ret |-> Ok("Interrupted"), reads |-> {}, vector |-> 0,
            frame |-> NoFrame]
      [] exit = "Efault" ->
           [vm |-> v, ret |-> Err("HvError"), reads |-> {}, vector |-> 0,
            frame |-> NoFrame]
      [] exit = "Debug" ->
           [vm |-> v, ret |-> Ok("Breakpoint"), reads |-> {}, vector |-> 0,
            frame |-> NoFrame]
      [] OTHER -> hlt_exit(v)

\* the classification of the exit, after the registers are pulled
classify(v, exit) ==
    CASE exit \in {"Eintr", "Eagain"} ->
           [vm |-> v, ret |-> Ok("Interrupted"), reads |-> {}, vector |-> 0,
            frame |-> NoFrame]
      [] exit = "Efault" ->
           [vm |-> v, ret |-> Err("HvError"), reads |-> {}, vector |-> 0,
            frame |-> NoFrame]
      [] exit = "Debug" ->
           [vm |-> v, ret |-> Ok("Breakpoint"), reads |-> {}, vector |-> 0,
            frame |-> NoFrame]
      [] exit = "Hlt" -> hlt_exit(v)
      [] OTHER ->
           [vm |-> v, ret |-> Ok("Unhandled"), reads |-> {}, vector |-> 0,
            frame |-> NoFrame]

\* one pass through the body of run()'s loop, the hypervisor call ending with
\* outcome o
run_pass(v, o) ==
    LET pulled == run_pull(KvmRun(run_prepare(v), o))
        with_msrs == [pulled EXCEPT !.fs_base = pulled.kvm_vcpu.fs_base,
                                    !.gs_base = pulled.kvm_vcpu.gs_base]
    IN CASE o.msrs = "err" ->
              [vm |-> pulled, ret |-> Err("HvError"), reads |-> {}, vector |-> 0,
               frame |-> NoFrame]
         [] o.msrs = "short" ->
              [vm |-> pulled, ret |-> Panic("Invalid number of msrs returned"),
               reads |-> {}, vector |-> 0, frame |-> NoFrame]
         [] OTHER -> classify(with_msrs, ExitOf(v, o))

\* a loop body that goes round again when the hypervisor call was interrupted
leaves_unless_interrupted(r) ==
    \/ r.ret.tag \in {"Err", "Panic"}
    \/ r.ret.tag = "Ok" /\ r.ret.kind \in VmExit \ {"Interrupted"}

\* the pass ends the loop: it returned an error, panicked, or broke out of the
\* loop with a VmExit
leaves(r) ==
    \/ r.ret.tag \in {"Err", "Panic"}
    \/ r.ret.tag = "Ok" /\ r.ret.kind \in VmExit

\* the loop of run(): passes are made until one leaves; n counts the
\* hypervisor calls, of which the model follows MaxPasses at most. The pass is
\* made once and r is its result
RECURSIVE run_loop(_, _, _)
run_loop(v, o, n) ==
    CHOOSE result \in
        { IF leaves(r) \/ n >= MaxPasses
          THEN [vm |-> r.vm, ret |-> r.ret, reads |-> r.reads, vector |-> r.vector,
                frame |-> r.frame, calls |-> n, left |-> leaves(r)]
          ELSE run_loop(r.vm, o, n + 1)
          : r \in {run_pass(v, o)} } : TRUE

\* Vm::run with hypervisor outcome o
run(v, o) == run_loop(v, o, 1)

\* the status words the accessors are applied to
Statuses == { lo + hi * Pow2(15) : lo \in 0 .. (Pow2(PfBits) - 1), hi \in {0, 1} }

PfInit == pfd = [status |-> 0, address |-> 0, decoded |-> FALSE,
                 unmapped |-> FALSE, read |-> FALSE, write |-> FALSE,
                 instruction_fetch |-> FALSE]

\* a PageFaultDetail is built from a status word
PfBuild(s) ==
    /\ pfd' = [status |-> s, address |-> 0, decoded |-> FALSE,
               unmapped |-> FALSE, read |-> FALSE, write |-> FALSE,
               instruction_fetch |-> FALSE]
    /\ UNCHANGED <<vm, ret, hist>>

\* the four accessors are called on it
PfDecode ==
    /\ ~pfd.decoded
    /\ LET d == PageFaultDetail(pfd.status, pfd.address)
       IN pfd' = [pfd EXCEPT !.decoded = TRUE,
                             !.unmapped = unmapped(d),
                             !.read = read(d),
                             !.write = write(d),
                             !.instruction_fetch = instruction_fetch(d)]
    /\ UNCHANGED <<vm, ret, hist>>

----------------------------------------------------------------------------
(* Vm::reset and Clone *)

\* one physical page of the backing: the page tables, or a data frame
PageOfBacking(mem, f) == IF f = PT_FRAME THEN mem.pt ELSE mem.data[f]

\* copy PAGE_SIZE bytes at physical page f from other's backing into self's
restore_page(v, other, f) ==
    IF f = PT_FRAME
    THEN [v EXCEPT !.memory.pt = other.memory.pt]
    ELSE [v EXCEPT !.memory.data[f] = other.memory.data[f]]

\* bm.trailing_zeros()
trailing_zeros(bm) == CHOOSE b \in bm : \A c \in bm : b <= c

\* a loop that takes bit i of word bm_index for page bm_index * 32 + i
RECURSIVE restore_word_stride32(_, _, _, _)
restore_word_stride32(v, other, bm_index, bm) ==
    IF bm = {} THEN v
    ELSE LET i == trailing_zeros(bm)
         IN restore_word_stride32(restore_page(v, other, (bm_index * 32) + i), other,
                                  bm_index, bm \ {i})

\* the loop over the set bits of one bitmap word: bm &= bm - 1 drops the lowest
RECURSIVE restore_word(_, _, _, _)
restore_word(v, other, bm_index, bm) ==
    IF bm = {} THEN v
    ELSE LET i == trailing_zeros(bm)
         IN restore_word(restore_page(v, other, (bm_index * 64) + i), other,
                         bm_index, bm \ {i})

\* the physical pages that loop visits for one bitmap word, in order
RECURSIVE restore_word_pages(_, _)
restore_word_pages(bm_index, bm) ==
    IF bm = {} THEN << >>
    ELSE LET i == trailing_zeros(bm)
         IN <<(bm_index * 64) + i>> \o restore_word_pages(bm_index, bm \ {i})

\* KVM_GET_DIRTY_LOG of slot 0: one 64-bit word per 64 pages, as sets of bits
get_dirty_log(v) ==
    [w \in 0 .. ((v.memory.host_memory_size \div PAGE_SIZE) - 1) \div 64 |->
        { f % 64 : f \in { g \in v.kvm_vm.dirty_log : g \div 64 = w } }]

RECURSIVE restore_words(_, _, _, _)
restore_words(v, other, dirty_log, w) ==
    IF w \notin DOMAIN dirty_log THEN v
    ELSE restore_words(restore_word(v, other, w, dirty_log[w]), other,
                       dirty_log, w + 1)

\* the pages whose bit is set in a bitmap: bit b of word w is page w * 64 + b
bitmap_pages(dirty_log) ==
    UNION { { (w * 64) + b : b \in dirty_log[w] } : w \in DOMAIN dirty_log }

\* a clearing that acknowledges only the lowest page of the bitmap
clear_dirty_log_lowest(v, dirty_log) ==
    [v EXCEPT !.kvm_vm.dirty_log =
        { f \in @ : \E g \in bitmap_pages(dirty_log) : g < f }]

\* a reset that leaves the dirty log as it found it
clear_dirty_log_skipped(v, dirty_log) == v

\* KVM_CLEAR_DIRTY_LOG with the given bitmap: the pages named are marked clean
clear_dirty_log(v, dirty_log) ==
    [v EXCEPT !.kvm_vm.dirty_log =
        { f \in @ : (f % 64) \notin dirty_log[f \div 64] }]

\* a reset that restores the memory and leaves the register mirror alone
reset_memory_only(v, other) ==
    LET dirty_log == get_dirty_log(v)
    IN IF v.memory.host_memory_size # other.memory.host_memory_size
       THEN [vm |-> v, panic |-> TRUE, copied |-> {}]
       ELSE [vm |-> clear_dirty_log(restore_words(v, other, dirty_log, 0), dirty_log),
             panic |-> FALSE,
             copied |-> bitmap_pages(dirty_log)]

\* Vm::reset
reset(v, other) ==
    LET v1 == [v EXCEPT !.registers = other.registers,
                        !.special_registers = other.special_registers,
                        !.fs_base = other.fs_base,
                        !.gs_base = other.gs_base]
        dirty_log == get_dirty_log(v1)
    IN IF v.memory.host_memory_size # other.memory.host_memory_size
       THEN [vm |-> v1, panic |-> TRUE, copied |-> {}]
       ELSE [vm |-> clear_dirty_log(restore_words(v1, other, dirty_log, 0), dirty_log),
             panic |-> FALSE,
             copied |-> bitmap_pages(dirty_log)]

\* a clone that keeps the registers of the fresh VM
clone_fresh_registers(v) ==
    LET fresh == VmNew(v.memory.host_memory_size \div PAGE_SIZE)
    IN [fresh EXCEPT !.memory.pt = v.memory.pt,
                     !.memory.data = v.memory.data]

\* impl Clone for Vm
clone(v) ==
    LET fresh == VmNew(v.memory.host_memory_size \div PAGE_SIZE)
    IN [fresh EXCEPT !.registers = v.registers,
                     !.special_registers = v.special_registers,
                     !.fs_base = v.fs_base,
                     !.gs_base = v.gs_base,
                     !.memory.pt = v.memory.pt,
                     !.memory.data = v.memory.data]

----------------------------------------------------------------------------
(* Vm::new with a failing step *)

\* the fallible steps of new(), in the order the code takes them
BootSteps ==
    <<"VirtualMemory::new", "Kvm::new", "get_api_version", "Cap::SyncRegs",
      "KVM_CAP_MANUAL_DIRTY_LOG_PROTECT2", "create_vm", "enable_cap",
      "create_vcpu", "get_vcpu_mmap_size", "mmap_from_fd",
      "set_user_memory_region", "get_regs", "get_sregs", "set_tss_address",
      "set_guest_debug", "setup_exception_handling", "flush_registers">>

\* the five mappings of setup_exception_handling find a free frame each
exception_pages_fit(pages) ==
    LET m1 == mmap(MemNew(pages), GDT_ADDRESS, {"READ", "WRITE"})
        m2 == mmap(m1.mem, TSS_ADDRESS, {"READ"})
        m3 == mmap(m2.mem, IDT_HANDLERS, {"READ", "EXECUTE"})
        m4 == mmap(m3.mem, IDT_ADDRESS, {"READ"})
        m5 == mmap(m4.mem, STACK_ADDRESS, {"READ", "WRITE"})
    IN m1.ok /\ m2.ok /\ m3.ok /\ m4.ok /\ m5.ok

\* the first step of new() that fails, given the step the host or the
\* hypervisor refuses (0: none) and the memory the guest is given
first_failure(pages, refused) ==
    IF refused # 0 /\ refused < 16 THEN refused
    ELSE IF ~exception_pages_fit(pages) THEN 16
    ELSE refused

\* what new() hands back when step k fails
boot_failure(k) ==
    CASE BootSteps[k] \in {"VirtualMemory::new", "setup_exception_handling"} ->
           Err("MemoryError")
      [] BootSteps[k] = "enable_cap" ->
           Panic("Could not enable KVM_DIRTY_LOG_MANUAL_PROTECT")
      [] OTHER -> Err("HvError")

\* Vm::new(pages * PAGE_SIZE): the step that failed and the result
new(pages, refused) ==
    LET k == first_failure(pages, refused)
    IN IF k = 0 THEN [step |-> "", ret |-> Ok("Vm")]
       ELSE [step |-> BootSteps[k], ret |-> boot_failure(k)]

----------------------------------------------------------------------------
(* Software dirty flags *)

\* Vm::mappings: the mapped pages
mappings(v) == DOMAIN v.memory.pt

\* Vm::dirty_mappings: the mappings whose page-table entry has the dirty flag
dirty_mappings(v) == { p \in mappings(v) : v.memory.pt[p].dirty }

\* a clearing that skips the pages of the exception infrastructure
clear_dirty_mappings_user(v) ==
    [v EXCEPT !.memory.pt =
        [p \in DOMAIN @ |-> IF p >= 0 THEN [@[p] EXCEPT !.dirty = FALSE] ELSE @[p]]]

\* a clearing that empties the hypervisor's dirty log as well
clear_dirty_mappings_and_log(v) ==
    [v EXCEPT !.memory.pt = [p \in DOMAIN @ |-> [@[p] EXCEPT !.dirty = FALSE]],
              !.kvm_vm.dirty_log = {}]

\* Vm::clear_dirty_mappings: set_dirty(false) on every page-table entry
clear_dirty_mappings(v) ==
    [v EXCEPT !.memory.pt = [p \in DOMAIN @ |-> [@[p] EXCEPT !.dirty = FALSE]]]

----------------------------------------------------------------------------
(* Vm::from_snapshot.                                                      *)
(* A dump file is dump.len bytes long; dump.words[k] is its non-zero word  *)
(* at byte 8 * k. Lengths, offsets and addresses are multiples of 8. The   *)
(* page buffer holds its non-zero words by slot, like a frame.             *)

SLOTS == PAGE_SIZE \div 8

\* the word of the file at byte pos, zero past its end
FileWord(dump, pos) ==
    IF pos + 8 <= dump.len /\ (pos \div 8) \in DOMAIN dump.words
    THEN dump.words[pos \div 8]
    ELSE 0

\* the page of the file at byte pos, zero past its end
FilePage(dump, pos) ==
    [s \in { c \in 0 .. (SLOTS - 1) : FileWord(dump, pos + (8 * c)) # 0 }
        |-> FileWord(dump, pos + (8 * s))]

\* the bytes File::read finds between pos and the end of the file, a page at most
available(dump, pos) ==
    IF dump.len - pos >= PAGE_SIZE THEN PAGE_SIZE
    ELSE IF dump.len > pos THEN dump.len - pos
    ELSE 0

\* dump.seek(SeekFrom::Start(pos)); dump.read(&mut buf): the bytes available
\* are stored at the start of buf, the rest of buf keeps what it held
file_read(dump, pos, buf) ==
    LET n == available(dump, pos)
        val(s) == IF 8 * s < n THEN FileWord(dump, pos + (8 * s)) ELSE GetWord(buf, s)
    IN [s \in { c \in 0 .. (SLOTS - 1) : val(c) # 0 } |-> val(s)]

\* VirtualMemory::write of a whole page at a page-aligned address
write_page(mem, vaddr, page) ==
    IF ~Mapped(mem, vaddr)
    THEN [ok |-> FALSE, mem |-> mem]
    ELSE [ok |-> TRUE, mem |-> [mem EXCEPT !.data[mem.pt[PageOf(vaddr)].frame] = page]]

\* VirtualMemory::mmap of size bytes, page by page
RECURSIVE mmap_pages(_, _, _, _)
mmap_pages(mem, vaddr, size, perms) ==
    IF size <= 0 THEN [ok |-> TRUE, mem |-> mem]
    ELSE LET r == mmap(mem, vaddr, perms)
         IN IF ~r.ok THEN [ok |-> FALSE, mem |-> mem]
            ELSE mmap_pages(r.mem, vaddr + PAGE_SIZE, size - PAGE_SIZE, perms)

\* the loop over the pages of one mapping, from offset off on
RECURSIVE load_pages(_, _, _, _, _)
load_pages(mem, dump, mapping, off, buf) ==
    IF off >= mapping.end - mapping.start THEN [mem |-> mem, buf |-> buf]
    ELSE LET filled == file_read(dump, mapping.physical_offset + off, buf)
         IN load_pages(write_page(mem, mapping.start + off, filled).mem,
                       dump, mapping, off + PAGE_SIZE, filled)

\* the loop over the mappings of the manifest
RECURSIVE load_mappings(_, _, _, _)
load_mappings(mem, dump, todo, buf) ==
    IF todo = << >> THEN [ret |-> Ok("Vm"), mem |-> mem]
    ELSE LET mapping == Head(todo)
             mapped == mmap_pages(mem, mapping.start, mapping.end - mapping.start,
                                  mapping.permissions)
             loaded == load_pages(mapped.mem, dump, mapping, 0, buf)
         IN IF ~ULess(mapping.start, mapping.end)
            THEN [ret |-> Panic("mapping.start > mapping.end"), mem |-> mem]
            ELSE IF ~mapped.ok THEN [ret |-> Err("MemoryError"), mem |-> mem]
            ELSE load_mappings(loaded.mem, dump, Tail(todo), loaded.buf)

RECURSIVE set_regs_from(_, _, _)
set_regs_from(v, regs, todo) ==
    IF todo = {} THEN v
    ELSE LET r == CHOOSE x \in todo : TRUE
         IN set_regs_from(set_reg(v, r, regs[r]), regs, todo \ {r})

\* Vm::set_regs_snapshot: set_reg of each of the twenty registers
set_regs_snapshot(v, regs) == set_regs_from(v, regs, Register)

\* Vm::from_snapshot, the manifest parsed as info and the dump file opened
from_snapshot(info, dump, pages) ==
    LET fresh == VmNew(pages)
        loaded == load_mappings(fresh.memory, dump, info.mappings, << >>)
    IN IF loaded.ret # Ok("Vm")
       THEN [ret |-> loaded.ret, vm |-> fresh]
       ELSE [ret |-> Ok("Vm"),
             vm |-> flush_registers(
                       set_regs_snapshot([fresh EXCEPT !.memory = loaded.mem],
                                         info.registers))]

----------------------------------------------------------------------------
(* State and host operations *)

VmIds == {"a", "b"}

NoAccess == [addr |-> 0, rw |-> "none", present |-> FALSE, faulted |-> FALSE]

NoPrev == [ret |-> NoRet, sets |-> << >>, frame |-> NoFrame]

NoInfo == [mappings |-> << >>, registers |-> << >>]

NoDump == [len |-> 0, words |-> << >>]

NoHist ==
    [last |-> "new", runs |-> 0, nsets |-> 0, sets |-> << >>, prev |-> NoPrev,
     entry |-> ResetRegs, entry_fs |-> 0, entry_gs |-> 0,
     exit |-> "", msrs |-> "ok", pulled |-> ResetRegs, wrote |-> {}, reads |-> {},
     vector |-> 0, frame |-> NoFrame, access |-> NoAccess,
     resets |-> 0, row |-> 0, copied |-> {}, copied_before |-> {}, base |-> FALSE,
     cleared |-> {}, pages |-> MemPages, step |-> "", calls |-> 0, left |-> TRUE,
     info |-> NoInfo, dump |-> NoDump]

Init ==
    /\ vm = [i \in VmIds |-> VmNew(MemPages)]
    /\ ret = [i \in VmIds |-> NoRet]
    /\ hist = [i \in VmIds |-> NoHist]
    /\ PfInit

\* the last call of new() for this VM returned a Vm
Built(i) ==
    ~(hist[i].last \in {"new", "from_snapshot"} /\ ret[i].tag \in {"Err", "Panic"})

\* let vm = Vm::new(pages * PAGE_SIZE), the host or the hypervisor refusing
\* step `refused` (0: none); a Vm is bound only when new() returns Ok
New(i, pages, refused) ==
    LET r == new(pages, refused)
    IN /\ vm' = [vm EXCEPT ![i] = IF r.ret.tag = "Ok" THEN VmNew(pages) ELSE @]
       /\ ret' = [ret EXCEPT ![i] = r.ret]
       /\ hist' = [hist EXCEPT ![i] = [NoHist EXCEPT !.pages = pages,
                                                     !.step = r.step]]
       /\ UNCHANGED pfd

\* let vm = Vm::from_snapshot(info, dump, MemPages * PAGE_SIZE), as the first
\* thing done; a Vm is bound only when it returns Ok
FromSnapshot(i, info, dump) ==
    /\ hist[i] = NoHist
    /\ \E r \in {from_snapshot(info, dump, MemPages)} :
          /\ vm' = [vm EXCEPT ![i] = IF r.ret.tag = "Ok" THEN r.vm ELSE @]
          /\ ret' = [ret EXCEPT ![i] = r.ret]
          /\ hist' = [hist EXCEPT ![i] = [NoHist EXCEPT !.last = "from_snapshot",
                                                        !.info = info,
                                                        !.dump = dump]]
    /\ UNCHANGED pfd

\* vm.set_reg(regid, regval)
SetReg(i, regid, regval, maxsets) ==
    /\ hist[i].nsets < maxsets
    /\ Built(i)
    /\ ret[i].tag # "Panic"
    /\ vm' = [vm EXCEPT ![i] = set_reg(@, regid, regval)]
    /\ hist' = [hist EXCEPT ![i].last = "set_reg",
                            ![i].row = 0,
                            ![i].nsets = @ + 1,
                            ![i].sets = Upd(@, regid, regval)]
    /\ UNCHANGED <<ret, pfd>>

\* vm.mmap(vaddr, PAGE_SIZE, perms), of a page not mapped yet
Mmap(i, vaddr, perms) ==
    /\ ~Mapped(vm[i].memory, vaddr)
    /\ ret[i].tag # "Panic"
    /\ vm' = [vm EXCEPT ![i].memory = mmap(@, vaddr, perms).mem]
    /\ hist' = [hist EXCEPT ![i].last = "mmap", ![i].row = 0]
    /\ UNCHANGED <<ret, pfd>>

\* vm.mmap(vaddr, size, perms) of several pages, none of them mapped yet
MmapSize(i, vaddr, size, perms) ==
    /\ ~Mapped(vm[i].memory, vaddr)
    /\ ret[i].tag # "Panic"
    /\ \E r \in {mmap_pages(vm[i].memory, vaddr, size, perms)} :
          /\ r.ok
          /\ vm' = [vm EXCEPT ![i].memory = r.mem]
    /\ hist' = [hist EXCEPT ![i].last = "mmap", ![i].row = 0]
    /\ UNCHANGED <<ret, pfd>>

\* vm.write(vaddr, data)
Write(i, vaddr, data) ==
    /\ ret[i].tag # "Panic"
    /\ vm' = [vm EXCEPT ![i].memory = mem_write(@, vaddr, data).mem]
    /\ hist' = [hist EXCEPT ![i].last = "write", ![i].row = 0]
    /\ UNCHANGED <<ret, pfd>>

\* the guest can only store to pages that are mapped writable, and does
\* nothing when KVM_RUN fails before entering it
OutcomePossible(v, o) ==
    /\ \A a \in DOMAIN o.mw :
          Mapped(v.memory, a) /\ "WRITE" \in v.memory.pt[PageOf(a)].perms
    /\ o.kind \in {"Eagain", "Efault"} => DOMAIN o.wr = {} /\ DOMAIN o.mw = {}

\* vm.run(), the hypervisor call ending with outcome o
Run(i, o, maxruns) ==
    /\ hist[i].runs < maxruns
    /\ Built(i)
    /\ ret[i].tag # "Panic"
    /\ OutcomePossible(vm[i], o)
    /\ \E r \in {run(vm[i], o)},
          entered \in {KvmEnter(run_prepare(vm[i]))},
          stopped \in {KvmRun(run_prepare(vm[i]), o)} :
          /\ vm' = [vm EXCEPT ![i] = r.vm]
          /\ ret' = [ret EXCEPT ![i] = r.ret]
          /\ hist' = [hist EXCEPT ![i] =
                 [hist[i] EXCEPT
                    !.last = "run", !.runs = @ + 1, !.row = 0, !.sets = << >>,
                    !.prev = [ret |-> ret[i], sets |-> hist[i].sets,
                              frame |-> hist[i].frame],
                    !.entry = entered.kvm_vcpu.regs,
                    !.entry_fs = entered.kvm_vcpu.fs_base,
                    !.entry_gs = entered.kvm_vcpu.gs_base,
                    !.exit = ExitOf(vm[i], o),
                    !.msrs = o.msrs,
                    !.pulled = stopped.kvm_vcpu_run.regs,
                    !.wrote = DOMAIN o.wr,
                    !.reads = r.reads,
                    !.calls = r.calls,
                    !.left = r.left,
                    !.vector = r.vector,
                    !.frame = r.frame,
                    !.access = IF o.kind = "Access"
                               THEN [addr |-> o.addr, rw |-> o.rw,
                                     present |-> Mapped(vm[i].memory, o.addr),
                                     faulted |-> AccessFaults(vm[i].memory, o.addr,
                                                              o.rw)]
                               ELSE NoAccess]]
    /\ UNCHANGED pfd

\* vm.clear_dirty_mappings()
ClearDirty(i) ==
    /\ ret[i].tag # "Panic"
    /\ vm' = [vm EXCEPT ![i] = clear_dirty_mappings(@)]
    /\ hist' = [hist EXCEPT ![i].last = "clear_dirty", ![i].row = 0,
                            ![i].cleared = dirty_mappings(vm[i])]
    /\ UNCHANGED <<ret, pfd>>

\* let j = vm[i].clone(): vm j becomes the baseline of vm i
Clone(i, j) ==
    /\ ~hist[i].base
    /\ ret[i].tag # "Panic"
    /\ vm' = [vm EXCEPT ![j] = clone(vm[i])]
    /\ ret' = [ret EXCEPT ![j] = NoRet]
    /\ hist' = [hist EXCEPT ![j] = [NoHist EXCEPT !.last = "clone"],
                            ![i].base = TRUE, ![i].row = 0]
    /\ UNCHANGED pfd

\* a reset that also acknowledges the reference's dirty log
ResetTo_clearing_reference(i, j, maxresets) ==
    /\ Built(j)
    /\ hist[i].resets < maxresets
    /\ ret[i].tag # "Panic"
    /\ LET r == reset(vm[i], vm[j])
       IN /\ vm' = [vm EXCEPT ![i] = r.vm, ![j].kvm_vm.dirty_log = {}]
          /\ ret' = [ret EXCEPT ![i] = IF r.panic THEN Panic("Vm memory mismatch")
                                       ELSE NoRet]
          /\ hist' = [hist EXCEPT ![i].last = "reset",
                                  ![i].resets = @ + 1,
                                  ![i].row = @ + 1,
                                  ![i].sets = << >>,
                                  ![i].copied = r.copied,
                                  ![i].copied_before = hist[i].copied]
    /\ UNCHANGED pfd

\* vm[i].reset(&vm[j])
ResetTo(i, j, maxresets) ==
    /\ Built(j)
    /\ hist[i].resets < maxresets
    /\ ret[i].tag # "Panic"
    /\ LET r == reset(vm[i], vm[j])
       IN /\ vm' = [vm EXCEPT ![i] = r.vm]
          /\ ret' = [ret EXCEPT ![i] = IF r.panic THEN Panic("Vm memory mismatch")
                                       ELSE NoRet]
          /\ hist' = [hist EXCEPT ![i].last = "reset",
                                  ![i].resets = @ + 1,
                                  ![i].row = @ + 1,
                                  ![i].sets = << >>,
                                  ![i].copied = r.copied,
                                  ![i].copied_before = hist[i].copied]
    /\ UNCHANGED pfd

\* vm[i].reset(&vm[j]), vm j being the baseline cloned from vm i
Reset(i, j, maxresets) == hist[i].base /\ ResetTo(i, j, maxresets)

----------------------------------------------------------------------------
(* Inputs *)

\* the page the tests load their code at (0x1337000)
CODE_ADDRESS == 20148224

\* a page the host maps for guest data, and one it never maps
DATA_ADDRESS == 2 * PAGE_SIZE

UNMAPPED_ADDRESS == 3 * PAGE_SIZE

\* syscall; int3   and   add rdx, rax
CodeSamples == {<<15, 5, 204>>, <<72, 1, 194>>}

Out(kind, wr) ==
    [wr |-> wr, mw |-> << >>, kind |-> kind, vector |-> 0, err |-> 0,
     addr |-> 0, rw |-> "read", msrs |-> "ok"]

Trap(vector, err, wr) == [Out("Trap", wr) EXCEPT !.vector = vector, !.err = err]

\* exits that involve no exception
PlainOutcomes ==
    { Out(k, << >>) : k \in {"Debug", "Other", "Eintr", "Eagain", "Efault"} }
    \cup { Out(k, ("Rip" :> CODE_ADDRESS + 1) @@ ("Rsp" :> DATA_ADDRESS))
           : k \in {"Debug", "Other"} }

MsrOutcomes == { [Out("Debug", << >>) EXCEPT !.msrs = m] : m \in {"err", "short"} }

\* the guest executes hlt outside the hypercall page: rip is the address after it
HltOutcomes ==
    { Out("Hlt", ("Rip" :> rip) @@ ("Rsp" :> UNMAPPED_ADDRESS))
      : rip \in {IDT_HANDLERS - 1, IDT_HANDLERS + PAGE_SIZE, CODE_ADDRESS + 1} }

\* the guest jumps to a hlt inside the hypercall page with a stack of its own
StrayOutcomes ==
    { Out("Hlt", ("Rip" :> rip) @@ ("Rsp" :> rsp))
      : rip \in {IDT_HANDLERS, IDT_HANDLERS + PAGE_SIZE - 1},
        rsp \in {UNMAPPED_ADDRESS, STACK_ADDRESS + PAGE_SIZE - 8,
                 STACK_ADDRESS + PAGE_SIZE - 16, IST1_TOP - 48} }

\* the guest forges a trampoline frame in its data page and halts inside the
\* hypercall page
ForgedOutcomes ==
    { [Out("Hlt", ("Rip" :> IDT_HANDLERS + 3) @@ ("Rsp" :> DATA_ADDRESS))
         EXCEPT !.mw = (DATA_ADDRESS :> vec) @@ (DATA_ADDRESS + 8 :> CODE_ADDRESS)
                       @@ (DATA_ADDRESS + 32 :> DATA_ADDRESS + 64)]
      : vec \in {6, 3} }

\* exceptions delivered through the IDT, at the entry rip or at the code page
TrapOutcomes ==
    { Trap(vec, 3, wr)
      : vec \in {0, 6, 8, 13, 14, 31},
        wr \in {<< >>, "Rip" :> CODE_ADDRESS, "Rip" :> UNMAPPED_ADDRESS} }

\* data accesses
AccessOutcomes ==
    { [Out("Access", << >>) EXCEPT !.addr = a, !.rw = rw]
      : a \in {DATA_ADDRESS, UNMAPPED_ADDRESS}, rw \in {"read", "write"} }

Outcomes ==
    PlainOutcomes \cup MsrOutcomes \cup HltOutcomes \cup StrayOutcomes
    \cup ForgedOutcomes \cup TrapOutcomes \cup AccessOutcomes

\* what the guest does in the register round trips
RegOutcomes ==
    { Out(k, << >>) : k \in {"Debug", "Eintr"} }
    \cup { Out("Debug", r :> 7) : r \in {"Rflags", "FsBase"} }
    \cup { Trap(6, 0, << >>) }
    \cup { Out("Hlt", "Rip" :> CODE_ADDRESS + 1) }

\* what the guest does around a syscall
SysOutcomes ==
    { Out(k, << >>) : k \in {"Debug", "Eintr"} }
    \cup { Out("Debug", "Rax" :> 7) }
    \cup { Trap(6, 0, wr) : wr \in {<< >>, "Rip" :> CODE_ADDRESS} }

----------------------------------------------------------------------------
(* Specifications *)

\* the run loop and the dispatcher
Next ==
    \/ Mmap("a", CODE_ADDRESS, {"READ", "EXECUTE"})
    \/ \E perms \in {{"READ"}, {"READ", "WRITE"}} : Mmap("a", DATA_ADDRESS, perms)
    \/ \E data \in CodeSamples : Write("a", CODE_ADDRESS, data)
    \/ \E o \in Outcomes : Run("a", o, MaxRuns)

Spec == Init /\ [][Next]_vars

\* register round trips
RegNext ==
    \/ \E r \in Register :
          SetReg("a", r, IF r = "Rip" THEN CODE_ADDRESS ELSE 5, MaxSets)
    \/ Mmap("a", CODE_ADDRESS, {"READ", "EXECUTE"})
    \/ Write("a", CODE_ADDRESS, <<15, 5, 204>>)
    \/ \E o \in RegOutcomes : Run("a", o, MaxRuns)

SpecRegs == Init /\ [][RegNext]_vars

\* a syscall, the host's emulation of it, and the resumption
SysNext ==
    \/ \E r \in {"Rax", "Rip"}, val \in {4919, CODE_ADDRESS} :
          SetReg("a", r, val, MaxSets)
    \/ Mmap("a", CODE_ADDRESS, {"READ", "EXECUTE"})
    \/ Write("a", CODE_ADDRESS, <<15, 5, 204>>)
    \/ \E o \in SysOutcomes : Run("a", o, SysRuns)

SpecSys == Init /\ [][SysNext]_vars

\* what the guest does between a clone and a reset
ResetOutcomes ==
    { Out(k, << >>) : k \in {"Debug", "Eintr"} }
    \cup { Out("Debug", "Rax" :> 7) }
    \cup { Trap(13, 0, << >>) }
    \cup { [Out("Access", << >>) EXCEPT !.addr = DATA_ADDRESS, !.rw = rw]
           : rw \in {"read", "write"} }

\* a baseline is cloned, the VM is used, and it is reset to the baseline
ResetNext ==
    \/ Clone("a", "b")
    \/ Mmap("a", DATA_ADDRESS, {"READ", "WRITE"})
    \/ Write("a", DATA_ADDRESS, <<72, 1, 194>>)
    \/ SetReg("a", "Rflags", 5, MaxSets)
    \/ \E o \in ResetOutcomes : Run("a", o, MaxRuns)
    \/ Reset("a", "b", MaxResets)

SpecReset == Init /\ [][ResetNext]_vars

\* one outcome for every way run() can return
IntrOutcomes ==
    { Out(k, << >>) : k \in {"Debug", "Other", "Eintr", "Eagain", "Efault"} }
    \cup { Out("Debug", ("Rflags" :> 65) @@ ("FsBase" :> 7)) }
    \cup { Out("Hlt", "Rip" :> CODE_ADDRESS + 1) }
    \cup { Trap(vec, 0, "Rip" :> CODE_ADDRESS) : vec \in {6, 13} }
    \cup { [Out("Access", << >>) EXCEPT !.addr = UNMAPPED_ADDRESS] }

\* runs that the hypervisor interrupts, and the runs made after them
IntrNext ==
    \/ \E r \in {"Rax", "Rflags"} : SetReg("a", r, 5, MaxSets)
    \/ Mmap("a", CODE_ADDRESS, {"READ", "EXECUTE"})
    \/ Write("a", CODE_ADDRESS, <<15, 5, 204>>)
    \/ \E o \in IntrOutcomes : Run("a", o, IntrRuns)

SpecIntr == Init /\ [][IntrNext]_vars

\* guest stores and host writes, and the clearing of the software dirty flags
DirtyNext ==
    \/ Mmap("a", DATA_ADDRESS, {"READ", "WRITE"})
    \/ Write("a", DATA_ADDRESS, <<72, 1, 194>>)
    \/ \E o \in ResetOutcomes : Run("a", o, DirtyRuns)
    \/ ClearDirty("a")

SpecDirty == Init /\ [][DirtyNext]_vars

\* what the guests of a VM and of its clone do
CloneOutcomes ==
    { Trap(13, 0, << >>),
      [Out("Access", << >>) EXCEPT !.addr = DATA_ADDRESS, !.rw = "write"] }

\* a VM and its clone, each used on its own
CloneNext ==
    \/ Clone("a", "b")
    \/ Mmap("a", DATA_ADDRESS, {"READ", "WRITE"})
    \/ SetReg("b", "Rax", 5, MaxSets)
    \/ Write("a", DATA_ADDRESS, <<72, 1, 194>>)
    \/ \E o \in CloneOutcomes : Run("a", o, MaxRuns)
    \/ Run("b", Out("Debug", "Rax" :> 7), MaxRuns)
    \/ Reset("a", "b", MaxResets)

SpecClone == Init /\ [][CloneNext]_vars

\* VMs are built, some of the builds failing, and the ones built are used
BootNext ==
    \/ \E pages \in 1 .. MemPages, refused \in 0 .. Len(BootSteps) :
          New("a", pages, refused)
    \/ SetReg("a", "Rax", 5, MaxSets)

SpecBoot == Init /\ [][BootNext]_vars

\* a second VM is built with the same or a smaller memory, and the first is
\* reset to it
MismatchNext ==
    \/ \E pages \in {MemPages - 1, MemPages} : New("b", pages, 0)
    \/ \E r \in {"Rax", "FsBase"} : SetReg("b", r, 5, MaxSets)
    \/ Mmap("a", DATA_ADDRESS, {"READ", "WRITE"})
    \/ Write("a", DATA_ADDRESS, <<72, 1, 194>>)
    \/ \E o \in ResetOutcomes : Run("a", o, MaxRuns)
    \/ ResetTo("a", "b", MaxResets)

SpecMismatch == Init /\ [][MismatchNext]_vars

\* what the guest does before its dirty flags are cleared
SoftOutcomes ==
    { Out("Debug", << >>), Trap(13, 0, << >>),
      [Out("Access", << >>) EXCEPT !.addr = DATA_ADDRESS, !.rw = "write"] }

\* the software dirty flags are cleared between a guest run and a reset
SoftNext ==
    \/ Clone("a", "b")
    \/ Mmap("a", DATA_ADDRESS, {"READ", "WRITE"})
    \/ \E o \in SoftOutcomes : Run("a", o, DirtyRuns)
    \/ ClearDirty("a")
    \/ Reset("a", "b", MaxResets)

SpecSoft == Init /\ [][SoftNext]_vars

\* the register block of a snapshot
SnapRegs ==
    { [r \in Register |->
          IF r = "Rax" THEN x ELSE IF r = "FsBase" THEN f
          ELSE IF r = "Rip" THEN DATA_ADDRESS ELSE 0]
      : x \in {0, 5}, f \in {0, 5} }

SnapMapping(start, size, perms, off) ==
    [start |-> start, end |-> start + size, permissions |-> perms,
     physical_offset |-> off]

\* manifests: one mapping of SnapPages pages, two mappings of a page each in
\* either order, a mapping that is empty, and a mapping given twice
SnapMappings ==
    { << SnapMapping(DATA_ADDRESS, SnapPages * PAGE_SIZE, {"READ", "WRITE"}, 0) >>,
      << SnapMapping(CODE_ADDRESS, PAGE_SIZE, {"READ", "EXECUTE"}, 0),
         SnapMapping(DATA_ADDRESS, PAGE_SIZE, {"READ", "WRITE"}, PAGE_SIZE) >>,
      << SnapMapping(DATA_ADDRESS, PAGE_SIZE, {"READ", "WRITE"}, PAGE_SIZE),
         SnapMapping(CODE_ADDRESS, PAGE_SIZE, {"READ", "EXECUTE"}, 0) >>,
      << SnapMapping(DATA_ADDRESS, 0, {"READ", "WRITE"}, 0) >>,
      << SnapMapping(DATA_ADDRESS, PAGE_SIZE, {"READ", "WRITE"}, 0),
         SnapMapping(DATA_ADDRESS, PAGE_SIZE, {"READ"}, 0) >> }

SnapInfos == { [mappings |-> m, registers |-> r] : m \in SnapMappings, r \in SnapRegs }

\* a dump of len bytes whose pages hold words at their first, second and last slot
SnapDump(len, fill) ==
    [len |-> len,
     words |-> [k \in { (SLOTS * pg) + sl : pg \in 0 .. (SnapPages - 1),
                                           sl \in {0, 1, SLOTS - 1} }
                      \cap { j \in 0 .. ((SnapPages * SLOTS) - 1) : (8 * j) + 8 <= len }
                  |-> (100 * fill) + (10 * (k \div SLOTS)) + ((k % SLOTS) % 3) + 1]]

\* dumps that are empty, end inside a page, or hold every page in full
SnapDumps ==
    { SnapDump(len, fill)
      : len \in {0, 8, PAGE_SIZE, PAGE_SIZE + 8, SnapPages * PAGE_SIZE},
        fill \in {1, 2} }

\* what the guest does once the snapshot is loaded
SnapOutcomes ==
    { Out("Debug", << >>),
      [Out("Access", << >>) EXCEPT !.addr = DATA_ADDRESS, !.rw = "write"] }

\* a snapshot is loaded and the guest is run
SnapNext ==
    \/ \E info \in SnapInfos, dump \in SnapDumps : FromSnapshot("a", info, dump)
    \/ \E o \in SnapOutcomes : Run("a", o, MaxRuns)

SpecSnap == Init /\ [][SnapNext]_vars

\* each of the 32 exceptions is raised at the code page by a guest that keeps
\* the number of the exception it raises in rax
VectorOutcomes ==
    { Trap(vec, 3, ("Rax" :> vec) @@ ("Rip" :> CODE_ADDRESS)) : vec \in 0 .. 31 }

\* exceptions of every vector are delivered, one run after the other
VectorNext ==
    \/ Mmap("a", CODE_ADDRESS, {"READ", "EXECUTE"})
    \/ Write("a", CODE_ADDRESS, <<15, 5, 204>>)
    \/ \E o \in VectorOutcomes : Run("a", o, IntrRuns)

SpecVectors == Init /\ [][VectorNext]_vars

\* a guest store to the data page
StoreOutcome(val) == [Out("Debug", "Rax" :> 7) EXCEPT !.mw = DATA_ADDRESS :> val]

\* the reference is a VM in use: it has run, its guest has written memory and
\* its registers were set since; the other VM is reset to it more than once
RefNext ==
    \/ Mmap("a", DATA_ADDRESS, {"READ", "WRITE"})
    \/ Clone("a", "b")
    \/ SetReg("b", "FsBase", 5, MaxSets)
    \/ Run("b", StoreOutcome(9), MaxRuns)
    \/ \E o \in {StoreOutcome(66), Trap(13, 0, << >>)} : Run("a", o, DirtyRuns)
    \/ Reset("a", "b", MaxResets)

SpecRef == Init /\ [][RefNext]_vars

\* the data range of the large VM takes every frame the bootstrap left: its
\* first page is in word 0 of the dirty bitmap, HIGH_ADDRESS and the page
\* after it are bits 0 and 1 of word 1
HIGH_ADDRESS == DATA_ADDRESS + ((64 - VmNew(BigPages).memory.next_frame) * PAGE_SIZE)

\* the guest stores to some of three pages of the range
BitmapOutcomes ==
    { [Out("Debug", << >>) EXCEPT !.mw = [a \in S |-> 9]]
      : S \in SUBSET {DATA_ADDRESS, HIGH_ADDRESS, HIGH_ADDRESS + PAGE_SIZE} }

\* a VM of BigPages pages is built, cloned, written by the host and the guest,
\* and reset to the clone
BitmapNext ==
    \/ hist["a"].pages # BigPages /\ New("a", BigPages, 0)
    \/ /\ hist["a"].pages = BigPages
       /\ \/ MmapSize("a", DATA_ADDRESS,
                       (BigPages - vm["a"].memory.next_frame) * PAGE_SIZE,
                       {"READ", "WRITE"})
          \/ Clone("a", "b")
          \/ Write("a", DATA_ADDRESS + PAGE_SIZE, <<72, 1, 194>>)
          \/ \E o \in BitmapOutcomes : Run("a", o, MaxRuns)
          \/ Reset("a", "b", MaxResets)

SpecBitmap == Init /\ [][BitmapNext]_vars

\* the PageFaultDetail accessors on their own
PfNext == (\E s \in Statuses : PfBuild(s)) \/ PfDecode

SpecPf == Init /\ [][PfNext]_vars

----------------------------------------------------------------------------
(* Properties *)

\* C1 as stated: after set_reg(R, V) and a run() that returns without the guest
\* writing R, get_reg(R) returns V, for every one of the twenty registers
C1_Claim ==
    (hist["a"].last = "run" /\ ret["a"].tag = "Ok") =>
        \A R \in (DOMAIN hist["a"].prev.sets) \ hist["a"].wrote :
            get_reg(vm["a"], R) = hist["a"].prev.sets[R]

\* C2: after self.reset(&ref), ref being the clone self was taken from, every
\* page of self's physical memory holds the bytes of ref's, whatever run(),
\* write() and mmap() calls were made on self in between
C2_Claim ==
    (hist["a"].last = "reset" /\ ret["a"].tag # "Panic") =>
        \A f \in 0 .. (MemPages - 1) :
            PageOfBacking(vm["a"].memory, f) = PageOfBacking(vm["b"].memory, f)

\* C3: a reset made right after a reset to the same reference copies no page
\* and leaves the memory and the register mirror as they were
C3_ResetIdempotent ==
    [][(hist["a"].last = "reset" /\ hist'["a"].resets = hist["a"].resets + 1) =>
          /\ hist'["a"].copied = {}
          /\ vm'["a"].memory = vm["a"].memory
          /\ vm'["a"].registers = vm["a"].registers
          /\ vm'["a"].special_registers = vm["a"].special_registers
          /\ vm'["a"].fs_base = vm["a"].fs_base
          /\ vm'["a"].gs_base = vm["a"].gs_base]_vars

\* two resets in a row, the first of which had pages to copy
C3_Witness ==
    /\ hist["a"].last = "reset"
    /\ hist["a"].row >= 2
    /\ hist["a"].copied_before # {}
    /\ hist["a"].copied = {}

\* C4: whatever exit the hypervisor reports and whatever the guest stack
\* holds, run() returns Ok with one of the eight VmExit variants
C4_Claim ==
    (hist["a"].runs > 0 /\ hist["a"].msrs = "ok"
     /\ hist["a"].exit \in {"Debug", "Hlt", "Other"}) =>
        (ret["a"].tag = "Ok" /\ ret["a"].kind \in VmExit)

\* C5: unmapped() is true exactly when bit 0 of the status word is clear
C5_Claim ==
    pfd.decoded => (pfd.unmapped <=> (pfd.status % 2 = 0))

\* C6: write() is true exactly when bit 1 of the status word is set, read()
\* exactly when it is clear, and exactly one of the two holds
C6_Claim ==
    pfd.decoded =>
        /\ pfd.write <=> ((pfd.status \div 2) % 2 = 1)
        /\ pfd.read <=> ((pfd.status \div 2) % 2 = 0)
        /\ pfd.read # pfd.write

\* the detail a run returned
DetailOf(r) == PageFaultDetail(r.status, r.address)

\* C7: a faulting guest access to A makes run() return PageFault with
\* address = A; a read of an unmapped page has unmapped() and read() true, a
\* write to a present read-only page has unmapped() false and write() true
C7_Claim ==
    (hist["a"].last = "run" /\ hist["a"].access.faulted) =>
        /\ ret["a"].tag = "Ok"
        /\ ret["a"].kind = "PageFault"
        /\ ret["a"].address = hist["a"].access.addr
        /\ (hist["a"].access.rw = "read" /\ ~hist["a"].access.present) =>
               (unmapped(DetailOf(ret["a"])) /\ read(DetailOf(ret["a"])))
        /\ (hist["a"].access.rw = "write" /\ hist["a"].access.present) =>
               (~unmapped(DetailOf(ret["a"])) /\ write(DetailOf(ret["a"])))

\* the two bytes at address a are readable and are 0F 05
SyscallAt(mem, a) ==
    /\ Mapped(mem, a)
    /\ Mapped(mem, a + 1)
    /\ ByteAt(mem, a) = 15
    /\ ByteAt(mem, a + 1) = 5

\* C8: when the trampoline reports vector 6, run() returns Syscall with
\* RIP = frame RIP + 2 if and only if the two bytes at the frame's RIP are
\* readable and are 0F 05; otherwise it returns InvalidInstruction with
\* RIP = frame RIP
C8_SyscallSynthesis ==
    (hist["a"].last = "run" /\ hist["a"].vector = 6 /\ hist["a"].frame.ok) =>
        IF SyscallAt(vm["a"].memory, hist["a"].frame.rip)
        THEN /\ ret["a"] = Ok("Syscall")
             /\ vm["a"].registers.rip = hist["a"].frame.rip + 2
        ELSE /\ ret["a"] = Ok("InvalidInstruction")
             /\ vm["a"].registers.rip = hist["a"].frame.rip

\* a vector 6 frame whose RIP points at 0F 05 was decoded
C8_Witness ==
    /\ hist["a"].last = "run"
    /\ hist["a"].vector = 6
    /\ hist["a"].frame.ok
    /\ hist["a"].frame.rip = CODE_ADDRESS
    /\ ret["a"] = Ok("Syscall")

\* C9: after run() returned Syscall, the next run() enters the guest at the
\* instruction after the syscall, with the registers the host set in between,
\* so the syscall instruction is not executed again
C9_SyscallResumption ==
    (hist["a"].last = "run" /\ hist["a"].prev.ret = Ok("Syscall")) =>
        /\ "Rip" \notin DOMAIN hist["a"].prev.sets =>
               /\ hist["a"].entry.rip = hist["a"].prev.frame.rip + 2
               /\ hist["a"].entry.rip # hist["a"].prev.frame.rip
        /\ \A R \in DOMAIN hist["a"].prev.sets :
               hist["a"].entry[FieldOf[R]] = hist["a"].prev.sets[R]
        /\ \A R \in (DOMAIN hist["a"].prev.sets) \ hist["a"].wrote :
               ret["a"] = Ok("Breakpoint") =>
                   get_reg(vm["a"], R) = hist["a"].prev.sets[R]

\* the host answered a syscall in rax and the next run stopped at the
\* breakpoint after it
C9_Witness ==
    /\ hist["a"].last = "run"
    /\ hist["a"].prev.ret = Ok("Syscall")
    /\ hist["a"].prev.sets = ("Rax" :> 4919)
    /\ ret["a"] = Ok("Breakpoint")
    /\ vm["a"].registers.rax = 4919
    /\ vm["a"].registers.rip = CODE_ADDRESS + 2

\* C10: on a Hlt exit run() returns Hlt if and only if the pulled RIP is
\* outside [hypercall_page, hypercall_page + PAGE_SIZE); it then reads no guest
\* memory and leaves RSP and RIP as pulled
C10_GuestHalt ==
    (hist["a"].last = "run" /\ hist["a"].exit = "Hlt" /\ hist["a"].msrs = "ok") =>
        LET inside == /\ IDT_HANDLERS <= hist["a"].pulled.rip
                      /\ hist["a"].pulled.rip < IDT_HANDLERS + PAGE_SIZE
        IN /\ (ret["a"] = Ok("Hlt")) <=> ~inside
           /\ ~inside =>
                 /\ hist["a"].reads = {}
                 /\ vm["a"].registers.rsp = hist["a"].pulled.rsp
                 /\ vm["a"].registers.rip = hist["a"].pulled.rip

\* the guest halted at the first address after the hypercall page
C10_Witness ==
    /\ hist["a"].last = "run"
    /\ hist["a"].exit = "Hlt"
    /\ hist["a"].pulled.rip = IDT_HANDLERS + PAGE_SIZE
    /\ ret["a"] = Ok("Hlt")

C12_RflagsAfterRun ==
    hist["a"].last = "run" => (get_reg(vm["a"], "Rflags") \div 2) % 2 = 1

\* run() returned after set_reg(Rflags, 5), which has bit 1 clear, the guest
\* leaving rflags alone
C12_Witness ==
    /\ hist["a"].last = "run"
    /\ ret["a"].tag = "Ok"
    /\ hist["a"].prev.sets = ("Rflags" :> 5)
    /\ "Rflags" \notin hist["a"].wrote
    /\ get_reg(vm["a"], "Rflags") = 7

\* C13: the rflags handed to the hypervisor has bit 1 set at every entry made
\* by run() and after every flush of the registers to the vCPU, also when the
\* host set Rflags with bit 1 clear or reset and clone copied the registers
C13_RflagsBeforeEntry ==
    /\ hist["a"].runs > 0 => (hist["a"].entry.rflags \div 2) % 2 = 1
    /\ \A i \in VmIds : (vm[i].kvm_vcpu.regs.rflags \div 2) % 2 = 1

\* the guest was entered after a reset that copied an rflags with bit 1 clear
\* from the reference
C13_Witness ==
    /\ hist["a"].last = "run"
    /\ hist["a"].resets > 0
    /\ hist["a"].prev.sets = << >>
    /\ vm["b"].registers.rflags = 5
    /\ hist["a"].entry.rflags = 7

\* C14: for every vector i in 0..32, IDT entry i points to
\* hypercall_page + 32 * i, which lies inside the hypercall page; the stub
\* there is the three bytes 6a i f4 and ends before the next stub begins
C14_TrampolineContainment ==
    \A id \in VmIds : \A i \in 0 .. 31 :
        LET mem == vm[id].memory
            hp == vm[id].hypercall_page
            stub == IdtEntryAt(mem, i).base
        IN /\ stub = hp + (32 * i)
           /\ hp <= stub
           /\ stub < hp + PAGE_SIZE
           /\ Mapped(mem, stub)
           /\ <<ByteAt(mem, stub), ByteAt(mem, stub + 1), ByteAt(mem, stub + 2)>>
                 = <<106, i, 244>>
           /\ WordAt(mem, stub) = 106 + (256 * i) + (65536 * 244)
           /\ \A k \in 1 .. 3 : WordAt(mem, stub + (8 * k)) = 0
           /\ i < 31 => stub + 3 <= IdtEntryAt(mem, i + 1).base

\* the guest took exception 13 through its gate and stopped at the hlt of
\* stub 13
C14_Witness ==
    /\ hist["a"].last = "run"
    /\ hist["a"].exit = "Hlt"
    /\ hist["a"].vector = 13
    /\ hist["a"].pulled.rip = vm["a"].hypercall_page + (32 * 13) + 2 + 1
    /\ ret["a"] = OkException(13)

\* C15: after clear_dirty_mappings() returns, dirty_mappings() yields no
\* mapping, whatever guest runs and host writes happened before, and
\* dirty_mappings() always yields a subset of mappings()
C15_DirtyFlagsCleared ==
    /\ hist["a"].last = "clear_dirty" => dirty_mappings(vm["a"]) = {}
    /\ dirty_mappings(vm["a"]) \subseteq mappings(vm["a"])

\* the flags were cleared after the guest had written its data page and the
\* exception stack
C15_Witness ==
    /\ hist["a"].last = "clear_dirty"
    /\ {DATA_ADDRESS, STACK_ADDRESS} \subseteq hist["a"].cleared
    /\ dirty_mappings(vm["a"]) = {}

\* the register mirror and the guest memory of a VM
Observable(v) ==
    [registers |-> v.registers, special_registers |-> v.special_registers,
     fs_base |-> v.fs_base, gs_base |-> v.gs_base,
     pt |-> v.memory.pt, data |-> v.memory.data,
     host_memory_size |-> v.memory.host_memory_size]

\* C16: clone() returns a VM of the same memory size whose register mirror and
\* whole physical backing equal the source's at the time of the call; after
\* that, an operation on one of the two VMs leaves the registers and the
\* memory of the other unchanged
C16_CloneIndependence ==
    [][/\ (~hist["a"].base /\ hist'["a"].base) =>
            /\ Observable(vm'["b"]) = Observable(vm["a"])
            /\ vm'["a"] = vm["a"]
       /\ \A i \in VmIds :
            hist'[i] = hist[i] => Observable(vm'[i]) = Observable(vm[i])]_vars

\* the source ran and wrote its data page after the clone was taken, and the
\* clone, not used since, does not have the word
C16_Witness ==
    /\ hist["a"].base
    /\ hist["b"].last = "clone"
    /\ hist["a"].last = "run"
    /\ Mapped(vm["b"].memory, DATA_ADDRESS)
    /\ WordAt(vm["a"].memory, DATA_ADDRESS) = 66
    /\ WordAt(vm["b"].memory, DATA_ADDRESS) = 0

\* C17: when a step of new() fails, new() returns an error value, HvError or
\* MemoryError, and never panics
C17_Claim ==
    (hist["a"].last = "new" /\ hist["a"].step # "") =>
        (ret["a"].tag = "Err" /\ ret["a"].kind \in {"HvError", "MemoryError"})

\* C18: reset clears the dirty log with the bitmap it retrieved: right after
\* reset(ref) returns, a dirty-log query for slot 0 has no bit set, and the
\* pages reset marked clean are pages it copied
C18_ResetClearsDirtyLog ==
    /\ [](hist["a"].last = "reset" /\ ret["a"].tag # "Panic" =>
            \A w \in DOMAIN get_dirty_log(vm["a"]) : get_dirty_log(vm["a"])[w] = {})
    /\ [][hist'["a"].resets = hist["a"].resets + 1 =>
            (vm["a"].kvm_vm.dirty_log \ vm'["a"].kvm_vm.dirty_log)
                \subseteq hist'["a"].copied]_vars

\* a reset found the page tables and a page the guest wrote in the bitmap,
\* copied them and left the log empty
C18_Witness ==
    /\ hist["a"].last = "reset"
    /\ Cardinality(hist["a"].copied) >= 2
    /\ PT_FRAME \in hist["a"].copied
    /\ vm["a"].kvm_vm.dirty_log = {}

\* C19: after self.reset(ref) returns, get_reg(R) on self equals get_reg(R) on
\* ref for every register R, and the special-register mirror of self equals
\* ref's, whatever self executed before
C19_ResetRestoresRegisters ==
    (hist["a"].last = "reset" /\ ret["a"].tag # "Panic") =>
        /\ \A R \in Register : get_reg(vm["a"], R) = get_reg(vm["b"], R)
        /\ vm["a"].special_registers = vm["b"].special_registers

\* a reset was made after the guest had changed rax, which the vCPU still holds
C19_Witness ==
    /\ hist["a"].last = "reset"
    /\ hist["a"].runs > 0
    /\ vm["a"].kvm_vcpu.regs.rax = 7
    /\ get_reg(vm["a"], "Rax") = 0

Resumed(h, r) ==
    IF h.frame.ok
    THEN [h.pulled EXCEPT !.rsp = h.frame.rsp,
                          !.rip = IF r.kind = "Syscall" THEN h.frame.rip + 2
                                  ELSE h.frame.rip]
    ELSE h.pulled

C21_Claim ==
    [][hist'["a"].runs = hist["a"].runs + 1 =>
          /\ run_prepare(vm["a"]).kvm_vcpu_run.regs = run_prepare(vm["a"]).registers
          /\ run_prepare(vm["a"]).kvm_vcpu_run.sregs = vm["a"].special_registers
          /\ SYNC_BOTH \subseteq run_prepare(vm["a"]).kvm_vcpu_run.kvm_dirty_regs
          /\ SYNC_BOTH \subseteq run_prepare(vm["a"]).kvm_vcpu_run.kvm_valid_regs
          /\ hist'["a"].entry = [vm["a"].registers EXCEPT !.rflags = set_bit(@, 1)]
          /\ hist'["a"].entry_fs = vm["a"].fs_base
          /\ hist'["a"].entry_gs = vm["a"].gs_base]_vars

\* C22: when run() decodes a trampoline exit, the vector is the word at the
\* pulled rsp; for vectors 8, 10, 11, 12, 13, 14, 17 and 21 the error code is
\* read at rsp + 8 and the frame at rsp + 16, for any other vector no error
\* code is read and the frame is at rsp + 8; the mirror then holds the frame's
\* rsp and rip (rip stepped over the instruction when Syscall is returned) and
\* every other general register as pulled
C22_FrameDecoding ==
    (hist["a"].last = "run" /\ ret["a"].tag = "Ok" /\ hist["a"].frame.ok) =>
        LET rsp == hist["a"].pulled.rsp
            coded == hist["a"].vector \in {8, 10, 11, 12, 13, 14, 17, 21}
            frame_at == IF coded THEN rsp + 16 ELSE rsp + 8
            fetched == IF hist["a"].vector = 6 THEN {hist["a"].frame.rip} ELSE {}
        IN /\ hist["a"].vector = read_val(vm["a"].memory, rsp).val
           /\ hist["a"].reads \ fetched =
                  ({rsp, frame_at} \cup (IF coded THEN {rsp + 8} ELSE {})) \ fetched
           /\ hist["a"].frame = read_frame(vm["a"].memory, frame_at)
           /\ vm["a"].registers =
                  [hist["a"].pulled EXCEPT
                      !.rsp = hist["a"].frame.rsp,
                      !.rip = hist["a"].frame.rip
                              + (IF ret["a"].kind = "Syscall" THEN 2 ELSE 0)]

\* a general protection fault was decoded: its frame lies 16 bytes above the
\* vector and the mirror's rsp left the interrupt stack
C22_Witness ==
    /\ hist["a"].last = "run"
    /\ ret["a"].tag = "Ok"
    /\ hist["a"].frame.ok
    /\ hist["a"].vector = 13
    /\ hist["a"].pulled.rsp + 16 \in hist["a"].reads
    /\ vm["a"].registers.rsp # hist["a"].pulled.rsp

\* C23: when run() decodes a trampoline exit with vector 14 it returns
\* PageFault whose status is the error code read at the pulled rsp + 8 and
\* whose address is the cr2 of the special registers pulled at that exit
C23_PageFaultTranslation ==
    (hist["a"].last = "run" /\ ret["a"].tag = "Ok" /\ hist["a"].frame.ok
     /\ hist["a"].vector = 14) =>
        /\ ret["a"].kind = "PageFault"
        /\ ret["a"].status = read_val(vm["a"].memory, hist["a"].pulled.rsp + 8).val
        /\ ret["a"].address = vm["a"].kvm_vcpu.sregs.cr2
        /\ ret["a"].address = vm["a"].special_registers.cr2

\* a guest write to a page that is not mapped was reported, with error code 2
C23_Witness ==
    /\ hist["a"].last = "run"
    /\ hist["a"].vector = 14
    /\ ret["a"].tag = "Ok"
    /\ ret["a"].kind = "PageFault"
    /\ ret["a"].status = 2
    /\ ret["a"].address = UNMAPPED_ADDRESS

\* C24: when run() decodes a trampoline exit whose vector is below 32 and is
\* neither 6 nor 14, it returns Exception carrying the vector number the
\* trampoline pushed, which is the byte of the stub the gate of that vector
\* points to
C24_OtherVectors ==
    (hist["a"].last = "run" /\ ret["a"].tag = "Ok" /\ hist["a"].frame.ok
     /\ hist["a"].vector \in (0 .. 31) \ {6, 14}) =>
        /\ ret["a"].kind = "Exception"
        /\ ret["a"].vector = hist["a"].vector
        /\ ret["a"].vector = read_val(vm["a"].memory, hist["a"].pulled.rsp).val
        /\ hist["a"].exit = "Hlt"
        /\ (hist["a"].pulled.rip = IdtEntryAt(vm["a"].memory, hist["a"].vector).base + 3
            /\ hist["a"].pulled.rsp \in {IST1_TOP - 48, IST1_TOP - 56}) =>
               ret["a"].vector = ByteAt(vm["a"].memory, hist["a"].pulled.rip - 2)

\* a general protection fault came back as Exception(13)
C24_Witness ==
    /\ hist["a"].last = "run"
    /\ ret["a"] = OkException(13)
    /\ hist["a"].pulled.rip = IDT_HANDLERS + (13 * 32) + 3

C26_OneEntryPerRun ==
    /\ hist["a"].calls <= 1
    /\ hist["a"].left
    /\ hist["a"].last = "run" => hist["a"].calls = 1

\* a run that the hypervisor interrupted came back after one call
C26_Witness ==
    /\ hist["a"].last = "run"
    /\ ret["a"] = Ok("Interrupted")
    /\ hist["a"].calls = 1
    /\ hist["a"].left

\* C27: when self and the reference have different host memory sizes, reset
\* aborts before any state of self is changed: the register mirror, FS base,
\* GS base and memory of self are what they were before the call
C27_Claim ==
    [][(hist'["a"].resets = hist["a"].resets + 1
        /\ vm["a"].memory.host_memory_size # vm["b"].memory.host_memory_size) =>
          /\ ret'["a"] = Panic("Vm memory mismatch")
          /\ vm'["a"].registers = vm["a"].registers
          /\ vm'["a"].special_registers = vm["a"].special_registers
          /\ vm'["a"].fs_base = vm["a"].fs_base
          /\ vm'["a"].gs_base = vm["a"].gs_base
          /\ vm'["a"].memory = vm["a"].memory]_vars

\* C28: clear_dirty_mappings clears the dirty flag of the page-table entries
\* and leaves the hypervisor's dirty log and the page contents as they were;
\* the pages whose flag it cleared, which the guest had dirtied, are copied
\* from the reference by the reset that follows
C28_SoftwareOnly ==
    /\ [][hist'["a"].last = "clear_dirty" =>
             /\ dirty_mappings(vm'["a"]) = {}
             /\ vm'["a"].kvm_vm = vm["a"].kvm_vm
             /\ get_dirty_log(vm'["a"]) = get_dirty_log(vm["a"])
             /\ vm'["a"].memory.data = vm["a"].memory.data]_vars
    /\ [][(hist["a"].resets = 0 /\ hist'["a"].resets = 1) =>
             \A p \in hist["a"].cleared :
                LET f == vm["a"].memory.pt[p].frame
                IN /\ f \in hist'["a"].copied
                   /\ PageOfBacking(vm'["a"].memory, f)
                        = PageOfBacking(vm["b"].memory, f)]_vars

\* the guest wrote its data page, the flags were cleared, and the reset
\* brought the page back from the reference
C28_Witness ==
    /\ hist["a"].last = "reset"
    /\ hist["a"].resets = 1
    /\ DATA_ADDRESS \in hist["a"].cleared
    /\ Mapped(vm["a"].memory, DATA_ADDRESS)
    /\ vm["a"].memory.pt[DATA_ADDRESS].frame \in hist["a"].copied
    /\ WordAt(vm["a"].memory, DATA_ADDRESS) = WordAt(vm["b"].memory, DATA_ADDRESS)
    /\ dirty_mappings(vm["a"]) = {}

\* C29: after from_snapshot succeeds, for every mapping of the manifest and
\* every page offset off of it, the guest page at start + off holds the
\* bytes of the dump file at physical_offset + off, also when the dump ends
\* before a full page is available there: no byte of a page loaded before
\* appears in it
C29_Claim ==
    (hist["a"].last = "from_snapshot" /\ ret["a"].tag = "Ok") =>
        \A k \in 1 .. Len(hist["a"].info.mappings) :
            LET mapping == hist["a"].info.mappings[k]
            IN \A pg \in 0 .. (((mapping.end - mapping.start) \div PAGE_SIZE) - 1) :
                  LET off == pg * PAGE_SIZE
                  IN /\ Mapped(vm["a"].memory, mapping.start + off)
                     /\ vm["a"].memory.data[vm["a"].memory.pt[mapping.start + off].frame]
                          = FilePage(hist["a"].dump, mapping.physical_offset + off)

\* C30: after new() or clone() has returned and before any run(), the
\* hypervisor's dirty log of the VM has no page set, neither a page of the
\* exception infrastructure nor a page the host mapped or wrote, so a reset
\* made then copies no page
C30_FreshDirtyLog ==
    \A i \in VmIds :
        hist[i].runs = 0 =>
            /\ vm[i].kvm_vm.dirty_log = {}
            /\ bitmap_pages(get_dirty_log(vm[i])) = {}
            /\ hist[i].copied = {}

\* the host mapped and wrote a page, cloned the VM and reset it with no run
\* made: nothing was copied, and the clone's log is empty too
C30_Witness ==
    /\ hist["a"].last = "reset"
    /\ hist["a"].runs = 0
    /\ hist["a"].copied = {}
    /\ hist["b"].last = "clone"
    /\ vm["b"].kvm_vm.dirty_log = {}
    /\ Mapped(vm["a"].memory, DATA_ADDRESS)
    /\ WordAt(vm["a"].memory, DATA_ADDRESS) # 0

\* C31: reset copies the pages whose bit is set in the bitmap it retrieved,
\* bit b of word w being page w * 64 + b, and no other: each such page holds
\* the bytes of the same physical page of the reference afterwards, every
\* page whose bit is clear keeps its bytes, and the loop over a word visits
\* popcount(word) pages, each once
C31_OnlyDirtyPagesCopied ==
    [][(hist'["a"].resets = hist["a"].resets + 1 /\ ret'["a"].tag # "Panic") =>
          \A w \in DOMAIN get_dirty_log(vm["a"]) :
              LET word == get_dirty_log(vm["a"])[w]
                  visits == restore_word_pages(w, word)
              IN /\ Len(visits) = Cardinality(word)
                 /\ \A k, l \in 1 .. Len(visits) : visits[k] = visits[l] => k = l
                 /\ { visits[k] : k \in 1 .. Len(visits) } = { (w * 64) + b : b \in word }
                 /\ \A b \in 0 .. 63 :
                       LET f == (w * 64) + b
                       IN (f * PAGE_SIZE < vm["a"].memory.host_memory_size) =>
                            PageOfBacking(vm'["a"].memory, f) =
                                IF b \in word THEN PageOfBacking(vm["b"].memory, f)
                                ELSE PageOfBacking(vm["a"].memory, f)]_vars

\* a reset copied the page tables and both pages of the second bitmap word,
\* and left alone a clean page that differs from the reference's
C31_Witness ==
    /\ hist["a"].last = "reset"
    /\ {PT_FRAME, 64, 65} \subseteq hist["a"].copied
    /\ \E f \in 1 .. 63 :
          /\ f \notin hist["a"].copied
          /\ vm["a"].memory.data[f] # vm["b"].memory.data[f]
    /\ vm["a"].memory.data[64] = vm["b"].memory.data[64]

\* C32: self.reset(ref) leaves ref as it was: the register mirror, the FS and
\* GS base, the physical memory and the hypervisor dirty log of ref are the
\* same after the call as before it, so that ref serves the next reset too
C32_ReferenceUntouched ==
    [][hist'["a"].resets = hist["a"].resets + 1 =>
          /\ vm'["b"].registers = vm["b"].registers
          /\ vm'["b"].special_registers = vm["b"].special_registers
          /\ vm'["b"].fs_base = vm["b"].fs_base
          /\ vm'["b"].gs_base = vm["b"].gs_base
          /\ vm'["b"].memory = vm["b"].memory
          /\ vm'["b"].kvm_vm.dirty_log = vm["b"].kvm_vm.dirty_log
          /\ hist'["b"] = hist["b"] /\ ret'["b"] = ret["b"]]_vars

\* the same reference served two resets that each had pages to copy, while
\* it holds a register set by the host and pages its own guest dirtied
C32_Witness ==
    /\ hist["a"].last = "reset"
    /\ hist["a"].resets >= 2
    /\ hist["a"].copied # {}
    /\ hist["a"].copied_before # {}
    /\ hist["b"].runs > 0
    /\ vm["b"].kvm_vm.dirty_log # {}
    /\ vm["b"].fs_base = 5
    /\ WordAt(vm["a"].memory, DATA_ADDRESS) = WordAt(vm["b"].memory, DATA_ADDRESS)

\* C33: for every vector i in 0 .. 31 the gate of i points to the stub at
\* hypercall_page + 32 * i, which pushes i and halts, and the address after
\* its hlt lies inside the hypercall page; when exception i is delivered
\* through the IDT, run() sees the halt at hypercall_page + 32 * i + 3, reads
\* i at the pulled rsp, and reports the exit of vector i, never Hlt
C33_DeliveredIsHypercall ==
    /\ \A i \in 0 .. 31 :
          LET stub == IdtEntryAt(vm["a"].memory, i).base
          IN /\ stub = vm["a"].hypercall_page + (32 * i)
             /\ <<ByteAt(vm["a"].memory, stub), ByteAt(vm["a"].memory, stub + 1),
                   ByteAt(vm["a"].memory, stub + 2)>> = <<106, i, 244>>
             /\ ~ULess(stub + 3, vm["a"].hypercall_page)
             /\ ULess(stub + 3, vm["a"].hypercall_page + PAGE_SIZE)
    /\ (hist["a"].last = "run" /\ hist["a"].exit = "Hlt") =>
          LET i == hist["a"].pulled.rax
          IN /\ hist["a"].pulled.rip = vm["a"].hypercall_page + (32 * i) + 3
             /\ read_val(vm["a"].memory, hist["a"].pulled.rsp) = [ok |-> TRUE, val |-> i]
             /\ hist["a"].vector = i
             /\ ret["a"].tag = "Ok"
             /\ ret["a"] # Ok("Hlt")
             /\ CASE i = 14 -> ret["a"].kind = "PageFault"
                  [] i = 6 -> ret["a"].kind \in {"Syscall", "InvalidInstruction"}
                  [] OTHER -> ret["a"] = OkException(i)

\* the exception of the last vector was reported after a general protection
\* fault had left its error code on the interrupt stack
C33_Witness ==
    /\ hist["a"].last = "run"
    /\ hist["a"].runs >= 2
    /\ hist["a"].prev.ret = OkException(13)
    /\ hist["a"].pulled.rax = 31
    /\ hist["a"].pulled.rip = IDT_HANDLERS + (32 * 31) + 3
    /\ ret["a"] = OkException(31)

\* C34: the IST1 top is STACK_ADDRESS + STACK_SIZE - 0x100; when an exception
\* is delivered the rsp pulled at the trampoline halt is the top minus 56 for
\* a vector with an error code and the top minus 48 for any other, and the
\* words run() reads from the stack (the vector, the error code if there is
\* one, and the 40-byte frame, which ends at the top) lie inside the stack
\* page, which is mapped readable and writable
C34_ReadsInsideStack ==
    LET top == STACK_ADDRESS + (STACK_SIZE - 256)
    IN /\ IST1_TOP = top
       /\ Mapped(vm["a"].memory, STACK_ADDRESS)
       /\ vm["a"].memory.pt[STACK_ADDRESS].perms = {"READ", "WRITE"}
       /\ (hist["a"].last = "run" /\ hist["a"].exit = "Hlt") =>
             LET rsp == hist["a"].pulled.rsp
                 coded == hist["a"].pulled.rax \in {8, 10, 11, 12, 13, 14, 17, 21}
                 fetched == IF hist["a"].vector = 6 THEN {hist["a"].frame.rip} ELSE {}
                 words == hist["a"].reads \ fetched
             IN /\ rsp = IF coded THEN top - 56 ELSE top - 48
                /\ words = IF coded THEN {rsp, rsp + 8, rsp + 16} ELSE {rsp, rsp + 8}
                /\ hist["a"].frame.ok
                /\ \A a \in words :
                      /\ ~ULess(a, STACK_ADDRESS)
                      /\ ULess(a + 7, STACK_ADDRESS + STACK_SIZE)
                /\ \E a \in words :
                      /\ \A b \in words : ~ULess(a, b)
                      /\ a + 40 = top
                      /\ ULess(a + 39, STACK_ADDRESS + STACK_SIZE)

\* an alignment-check exception, which has an error code, was decoded from
\* three reads that end at the IST1 top, after a breakpoint exception that
\* has none
C34_Witness ==
    /\ hist["a"].last = "run"
    /\ hist["a"].runs >= 2
    /\ hist["a"].prev.ret = OkException(3)
    /\ hist["a"].pulled.rax = 17
    /\ hist["a"].pulled.rsp = IST1_TOP - 56
    /\ hist["a"].reads = {IST1_TOP - 56, IST1_TOP - 48, IST1_TOP - 40}
    /\ ret["a"] = OkException(17)

====
